---- MODULE Spec2Model ----
(***************************************************************************)
(* Function Operating System (fos): a CLI that indexes the function        *)
(* declarations of a TypeScript project into an in-memory registry and     *)
(* answers queries over it.  The model follows the richer CLI variant      *)
(* (src/unnamed/part_002); src/src/cli.ts is an older variant of the same  *)
(* file.                                                                   *)
(*                                                                         *)
(* Strings of the program are sequences of one-character strings, so that  *)
(* endsWith, includes, toLowerCase, dirname and the regular-expression     *)
(* test are computed and not assumed.                                      *)
(***************************************************************************)
EXTENDS Integers, Sequences, FiniteSets, TLC

(***************************************************************************)
(* Bounds of the model.                                                    *)
(***************************************************************************)
\* call expressions in a whole project
MaxEdges == 3
\* largest numeric --depth argument tried by flow
MaxDepth == 2
\* longest find pattern
MaxPatLen == 4
\* property assignments in an object literal
MaxProps == 2
\* lines a declaration spans beyond its first
MaxSpan == 20
\* characters of padding in a type text
MaxTypeLen == 104
\* names given to one read command
MaxNames == 2

(***************************************************************************)
(* Strings.                                                                *)
(***************************************************************************)
\* the value of a missing optional / a failed lookup
Undefined == <<"undefined", "#">>

\* numbers as parseInt gives them: NaN for a text with no leading number
NaN == [nan |-> TRUE, n |-> 0]
Num(n) == [nan |-> FALSE, n |-> n]

Range(s) == {s[i] : i \in 1..Len(s)}

\* String.prototype.endsWith
EndsWith(s, suf) ==
    /\ Len(suf) <= Len(s)
    /\ SubSeq(s, Len(s) - Len(suf) + 1, Len(s)) = suf

\* String.prototype.includes
Includes(s, sub) ==
    \E i \in 0..(Len(s) - Len(sub)) : SubSeq(s, i + 1, i + Len(sub)) = sub

UpperCase == <<"A","B","C","D","E","F","G","H","I","J","K","L","M",
               "N","O","P","Q","R","S","T","U","V","W","X","Y","Z">>
LowerCase == <<"a","b","c","d","e","f","g","h","i","j","k","l","m",
               "n","o","p","q","r","s","t","u","v","w","x","y","z">>

LowerChar(c) ==
    IF \E i \in 1..26 : UpperCase[i] = c
    THEN LowerCase[CHOOSE i \in 1..26 : UpperCase[i] = c]
    ELSE c

\* String.prototype.toLowerCase
ToLowerCase(s) == [i \in 1..Len(s) |-> LowerChar(s[i])]

\* index of the last "/" of a path, 0 when there is none
LastSlash(p) ==
    IF \E i \in 1..Len(p) : p[i] = "/"
    THEN CHOOSE i \in 1..Len(p) : p[i] = "/" /\ \A j \in (i+1)..Len(p) : p[j] # "/"
    ELSE 0

\* path.dirname (posix) of a path without a trailing slash
Dirname(p) ==
    LET k == LastSlash(p) IN
    IF k = 0 THEN <<".">>
    ELSE IF k = 1 THEN <<"/">>
    ELSE SubSeq(p, 1, k - 1)

\* path.basename (posix)
Basename(p) == SubSeq(p, LastSlash(p) + 1, Len(p))

\* path.relative(cwd, file) for a file below cwd; a file elsewhere keeps its
\* absolute text (the model's projects lie below the working directory)
Relative(cwd, file) ==
    LET pre == IF cwd = <<"/">> THEN cwd ELSE cwd \o <<"/">> IN
    IF Len(pre) < Len(file) /\ SubSeq(file, 1, Len(pre)) = pre
    THEN SubSeq(file, Len(pre) + 1, Len(file))
    ELSE file

\* Array.prototype.find, as the index of the first element that satisfies
\* Test; 0 stands for the undefined result
Find(s, Test(_)) ==
    IF \E i \in 1..Len(s) : Test(s[i])
    THEN CHOOSE i \in 1..Len(s) : Test(s[i]) /\ \A j \in 1..(i-1) : ~Test(s[j])
    ELSE 0

\* Array.prototype.sort((x, y) => y.w - x.w) on items [w, v]: descending by w,
\* equal weights keeping their order (the sort of Node is stable)
RECURSIVE InsertDesc(_, _)
InsertDesc(s, x) ==
    IF s = << >> THEN <<x>>
    ELSE IF x.w > Head(s).w THEN <<x>> \o s
    ELSE <<Head(s)>> \o InsertDesc(Tail(s), x)

RECURSIVE SortDesc(_)
SortDesc(s) ==
    IF s = << >> THEN << >>
    ELSE InsertDesc(SortDesc(SubSeq(s, 1, Len(s) - 1)), s[Len(s)])

\* Array.prototype.map
MapSeq(s, F(_)) == [i \in 1..Len(s) |-> F(s[i])]

\* the concatenation of a sequence of sequences (forEach ... results.push)
RECURSIVE Flatten(_)
Flatten(ss) == IF ss = << >> THEN << >> ELSE Head(ss) \o Flatten(Tail(ss))

(***************************************************************************)
(* The source model (ts-morph).  A source file gives its absolute path and *)
(* its top-level function declarations, variable declarations and classes. *)
(* A function-like node gives its name, line range and the call            *)
(* expressions among the descendants of its body, in source order.         *)
(*   call expression: [shape, obj, objIdent, name, args]                   *)
(*     shape "import": the callee is the import keyword, args its          *)
(*                     argument texts                                      *)
(*     shape "ident" : the callee is the identifier name                   *)
(*     shape "prop"  : the callee is the property access obj.name;         *)
(*                     objIdent says whether obj is a bare identifier      *)
(*     shape "other" : any other callee                                    *)
(***************************************************************************)
CallIdent(n) ==
    [shape |-> "ident", obj |-> << >>, objIdent |-> FALSE, name |-> n, args |-> << >>]
CallProp(o, isIdent, n) ==
    [shape |-> "prop", obj |-> o, objIdent |-> isIdent, name |-> n, args |-> << >>]
CallImport(as) ==
    [shape |-> "import", obj |-> << >>, objIdent |-> FALSE, name |-> << >>, args |-> as]
CallOther ==
    [shape |-> "other", obj |-> << >>, objIdent |-> FALSE, name |-> << >>, args |-> << >>]

\* the text of the return type of a declaration that returns nothing
Void == <<"v","o","i","d">>

\* a function declaration, method, accessor or constructor node
FuncNode(n, hasName, l1, l2, calls) ==
    [name |-> n, hasGetName |-> hasName, startLine |-> l1, endLine |-> l2,
     exported |-> FALSE, body |-> calls, returnType |-> Void]

\* a variable declaration; init.kind is "arrow", "funcexpr", "object" or "other";
\* an object literal initializer carries its property assignments in init.props
VarNode(n, l1, l2, kind, calls, props) ==
    [name |-> n, hasGetName |-> TRUE, startLine |-> l1, endLine |-> l2,
     exported |-> FALSE,
     init |-> [kind |-> kind, body |-> calls, props |-> props, returnType |-> Void]]

ClassNode(n, ctors, methods, getters, setters) ==
    [name |-> n, constructors |-> ctors, methods |-> methods,
     getters |-> getters, setters |-> setters]

SourceFile(path, funcs, vars, classes) ==
    [path |-> path, functions |-> funcs, variables |-> vars, classes |-> classes,
     interfaces |-> << >>, typeAliases |-> << >>, enums |-> << >>]

(***************************************************************************)
(* Extraction.                                                             *)
(***************************************************************************)
\* args[0].getText().replace(/['"]/g, '')
StripQuotes(s) == SelectSeq(s, LAMBDA c : c # "'" /\ c # "\"")

\* Set.prototype.add on an insertion-ordered set
SetAdd(s, x) == IF x \in Range(s) THEN s ELSE Append(s, x)

\* a property access recorded whatever its object is
CallAddAnyObject(calls, child) ==
    IF child.shape = "import"
    THEN IF Len(child.args) > 0
         THEN SetAdd(calls, <<"i","m","p","o","r","t","(">> \o StripQuotes(child.args[1]) \o <<")">>)
         ELSE calls
    ELSE IF child.shape = "ident"
    THEN SetAdd(calls, child.name)
    ELSE IF child.shape = "prop"
    THEN SetAdd(calls, child.obj \o <<".">> \o child.name)
    ELSE calls

\* the reference one call expression adds to the set calls
CallAdd(calls, child) ==
    IF child.shape = "import"
    THEN IF Len(child.args) > 0
         THEN SetAdd(calls, <<"i","m","p","o","r","t","(">> \o StripQuotes(child.args[1]) \o <<")">>)
         ELSE calls
    ELSE IF child.shape = "ident"
    THEN SetAdd(calls, child.name)
    ELSE IF child.shape = "prop"
    THEN IF child.objIdent
         THEN SetAdd(calls, child.obj \o <<".">> \o child.name)
         ELSE calls
    ELSE calls

RECURSIVE ExtractCallsFrom(_, _)
ExtractCallsFrom(calls, body) ==
    IF body = << >> THEN calls
    ELSE ExtractCallsFrom(CallAdd(calls, Head(body)), Tail(body))

\* extractCalls
ExtractCalls(body) == ExtractCallsFrom(<< >>, body)

\* t occurs in s from position i on
StartsAt(s, i, t) ==
    i + Len(t) - 1 <= Len(s) /\ SubSeq(s, i, i + Len(t) - 1) = t

\* the first position from i on where s has the character c, 0 when none
IndexFrom(s, i, c) ==
    IF \E j \in i..Len(s) : s[j] = c
    THEN CHOOSE j \in i..Len(s) : s[j] = c /\ \A k \in i..(j - 1) : s[k] # c
    ELSE 0

ImportOpen == <<"i","m","p","o","r","t","(">>
ReactDot == <<"R","e","a","c","t",".">>
ReactFC == ReactDot \o <<"F","C","<">>
ReactElement == <<"R","e","a","c","t","E","l","e","m","e","n","t">>
ReactNode == <<"R","e","a","c","t","N","o","d","e">>
Ellipsis == <<".",".",".">>

\* the ")" closing a qualifier that starts at i, 0 when none starts there: a
\* qualifier is "import(", one character or more up to the first ")", and "."
ImportClose(s, i) ==
    LET close == IF StartsAt(s, i, ImportOpen)
                 THEN IndexFrom(s, i + Len(ImportOpen), ")") ELSE 0
    IN  IF close > i + Len(ImportOpen) /\ close < Len(s) /\ s[close + 1] = "."
        THEN close ELSE 0

\* typeStr.replace(/import\([^)]+\)\./g, ''), from position i on: the text up
\* to the first qualifier, then the text after it treated the same way
RECURSIVE StripImports(_, _)
StripImports(s, i) ==
    LET starts == {j \in i..(Len(s) - Len(ImportOpen) - 2) : ImportClose(s, j) # 0}
    IN  IF starts = {} THEN SubSeq(s, i, Len(s))
        ELSE LET j == CHOOSE p \in starts : \A q \in starts : p <= q
             IN  SubSeq(s, i, j - 1) \o StripImports(s, ImportClose(s, j) + 2)

\* s without the "React." of the first place where Matches holds; the three
\* replacements of React names all drop this prefix and keep the rest
DropReactAt(s, places) ==
    IF places = {} THEN s
    ELSE LET i == CHOOSE p \in places : \A q \in places : p <= q
         IN  SubSeq(s, 1, i - 1) \o SubSeq(s, i + Len(ReactDot), Len(s))

\* typeStr.replace(/React\.FC<(.+)>/, 'FC<$1>')
ReplaceFC(s) ==
    DropReactAt(s, {i \in 1..(Len(s) - Len(ReactFC) - 1) :
        /\ StartsAt(s, i, ReactFC)
        /\ \E j \in (i + Len(ReactFC) + 1)..Len(s) : s[j] = ">"})

\* typeStr.replace(/React\.ReactElement/, 'ReactElement') and the like
ReplaceReact(s, name) ==
    DropReactAt(s, {i \in 1..(Len(s) - Len(ReactDot) - Len(name) + 1) :
                        StartsAt(s, i, ReactDot \o name)})

\* the longest type text kept whole, and what is kept of a longer one
TypeLimit == 100
TypeKept == 97

\* the cut keeping TypeLimit characters before the ellipsis
TruncateLate(s) ==
    IF Len(s) > TypeLimit THEN SubSeq(s, 1, TypeLimit) \o Ellipsis ELSE s

\* if (typeStr.length > 100) return typeStr.substring(0, 97) + '...'
Truncate(s) ==
    IF Len(s) > TypeLimit THEN SubSeq(s, 1, TypeKept) \o Ellipsis ELSE s

\* cleanType
CleanType(typeStr) ==
    Truncate(ReplaceReact(ReplaceReact(ReplaceFC(StripImports(typeStr, 1)),
                                       ReactElement), ReactNode))

\* the size without the line the function starts on
SizeBetween(startLine, endLine) == endLine - startLine

\* node.getEndLineNumber() - node.getStartLineNumber() + 1
Size(startLine, endLine) == endLine - startLine + 1

\* the metric with a baseline of one
ComplexityFromOne(calls, startLine, endLine) ==
    1 + Len(calls) + ((endLine - startLine) \div 10)

\* calls.length + Math.floor((end - start) / 10)
Complexity(calls, startLine, endLine) ==
    Len(calls) + ((endLine - startLine) \div 10)

\* the id made of the file path and the name alone
FunctionIdWithoutClass(filePath, className, name) == filePath \o <<":">> \o name

\* className ? `${filePath}:${className}.${name}` : `${filePath}:${name}`
FunctionId(filePath, className, name) ==
    IF className # Undefined
    THEN filePath \o <<":">> \o className \o <<".">> \o name
    ELSE filePath \o <<":">> \o name

\* extractFunctionData(node, filePath, type, arrowFunc, className); funcBody is
\* the body of arrowFunc || node, className is Undefined when not given
ExtractFunctionData(node, filePath, type, funcBody, className) ==
    LET name  == IF node.hasGetName THEN node.name
                 ELSE <<"a","n","o","n","y","m","o","u","s">>
        funcNode == IF type = "arrow" THEN node.init ELSE node
        calls == ExtractCalls(funcBody)
    IN  [id         |-> FunctionId(filePath, className, name),
         name       |-> name,
         type       |-> type,
         className  |-> className,
         filePath   |-> filePath,
         line       |-> node.startLine,
         endLine    |-> node.endLine,
         size       |-> Size(node.startLine, node.endLine),
         exported   |-> node.exported,
         returnType |-> CleanType(funcNode.returnType),
         calls      |-> calls,
         complexity |-> Complexity(calls, node.startLine, node.endLine)]

\* the records of one class: constructors, methods, getters, setters
ExtractClass(classDecl, filePath) ==
    LET Of(type, m) == ExtractFunctionData(m, filePath, type, m.body, classDecl.name)
    IN  MapSeq(classDecl.constructors, LAMBDA m : Of("constructor", m))
        \o MapSeq(classDecl.methods, LAMBDA m : Of("method", m))
        \o MapSeq(classDecl.getters, LAMBDA m : Of("getter", m))
        \o MapSeq(classDecl.setters, LAMBDA m : Of("setter", m))

\* extractFunctions
ExtractFunctions(sourceFile, filePath) ==
    LET IsFn(v) == v.init.kind \in {"arrow", "funcexpr"}
    IN  MapSeq(sourceFile.functions,
               LAMBDA f : ExtractFunctionData(f, filePath, "function", f.body, Undefined))
        \o MapSeq(SelectSeq(sourceFile.variables, IsFn),
               LAMBDA v : ExtractFunctionData(v, filePath, "arrow", v.init.body, Undefined))
        \o Flatten(MapSeq(sourceFile.classes, LAMBDA c : ExtractClass(c, filePath)))

(***************************************************************************)
(* The registries: insertion-ordered maps, kept as sequences of entries.   *)
(***************************************************************************)
\* functions.set(func.id, func): a new key goes last, a known key keeps its place
FunctionsSet(fns, func) ==
    IF \E i \in 1..Len(fns) : fns[i].id = func.id
    THEN [i \in 1..Len(fns) |-> IF fns[i].id = func.id THEN func ELSE fns[i]]
    ELSE Append(fns, func)

\* modules.get(modulePath).push(id), after creating the list when missing
ModulesPush(mods, modulePath, id) ==
    IF \E i \in 1..Len(mods) : mods[i].path = modulePath
    THEN [i \in 1..Len(mods) |->
            IF mods[i].path = modulePath
            THEN [mods[i] EXCEPT !.ids = Append(@, id)] ELSE mods[i]]
    ELSE Append(mods, [path |-> modulePath, ids |-> <<id>>])

\* the definition stored only when the name is new
TypesSetKeepFirst(types, def) ==
    IF \E i \in 1..Len(types) : types[i].name = def.name THEN types
    ELSE Append(types, def)

\* typeDefinitions.set(name, def)
TypesSet(types, def) ==
    IF \E i \in 1..Len(types) : types[i].name = def.name
    THEN [i \in 1..Len(types) |-> IF types[i].name = def.name THEN def ELSE types[i]]
    ELSE Append(types, def)

\* the skip test of analyze on the absolute path of a source file
Skipped(filePath) ==
    \/ Includes(filePath, <<"n","o","d","e","_","m","o","d","u","l","e","s">>)
    \/ Includes(filePath, <<".","n","e","x","t">>)
    \/ Includes(filePath, <<"d","i","s","t">>)

\* findTsConfig: walk from the working directory towards the root
RECURSIVE FindTsConfigFrom(_, _)
FindTsConfigFrom(currentDir, configDirs) ==
    IF currentDir = <<"/">> THEN Undefined
    ELSE IF currentDir \in configDirs
         THEN currentDir \o <<"/","t","s","c","o","n","f","i","g",".","j","s","o","n">>
         ELSE FindTsConfigFrom(Dirname(currentDir), configDirs)

FindTsConfig(e) == FindTsConfigFrom(e.cwd, e.configDirs)

\* extracted.forEach(func => { functions.set(...); modules...push(...) })
RECURSIVE StoreFunctions(_, _, _)
StoreFunctions(reg, extracted, modulePath) ==
    IF extracted = << >> THEN reg
    ELSE StoreFunctions(
            [functions |-> FunctionsSet(reg.functions, Head(extracted)),
             modules   |-> ModulesPush(reg.modules, modulePath, Head(extracted).id),
             types     |-> reg.types],
            Tail(extracted), modulePath)

\* extractTypeDefinitions: interfaces, then type aliases, then enums
RECURSIVE StoreTypes(_, _)
StoreTypes(types, defs) ==
    IF defs = << >> THEN types
    ELSE StoreTypes(TypesSet(types, Head(defs)), Tail(defs))

ExtractTypeDefinitions(types, sourceFile, filePath) ==
    StoreTypes(types,
        MapSeq(sourceFile.interfaces \o sourceFile.typeAliases \o sourceFile.enums,
               LAMBDA d : [name |-> d.name, filePath |-> filePath,
                           line |-> d.line, definition |-> d.text]))

\* the body of sourceFiles.forEach in analyze, for one source file
AnalyzeSourceFile(reg, sourceFile, cwd) ==
    IF Skipped(sourceFile.path) THEN reg
    ELSE LET relativePath == Relative(cwd, sourceFile.path)
             modulePath   == Dirname(relativePath)
             extracted    == ExtractFunctions(sourceFile, relativePath)
             withTypes    == [reg EXCEPT !.types =
                                ExtractTypeDefinitions(@, sourceFile, relativePath)]
         IN  StoreFunctions(withTypes, extracted, modulePath)

EmptyRegistry == [functions |-> << >>, modules |-> << >>, types |-> << >>]

\* the registries analyze leaves behind for the first n source files
RECURSIVE AnalyzeFiles(_, _)
AnalyzeFiles(e, n) ==
    IF n = 0 THEN EmptyRegistry
    ELSE AnalyzeSourceFile(AnalyzeFiles(e, n - 1), e.sourceFiles[n], e.cwd)

(***************************************************************************)
(* Lookups over the function registry.                                     *)
(***************************************************************************)
\* the lookup by name alone
FindFunctionByName(fns, q) == Find(fns, LAMBDA f : f.name = q)

\* Array.from(functions.values()).find(f => f.name === q || f.id.endsWith(`:${q}`))
FindFunction(fns, q) ==
    Find(fns, LAMBDA f : f.name = q \/ EndsWith(f.id, <<":">> \o q))

\* Array.from(functions.values()).find(f => f.name === call)
FindCalled(fns, call) == Find(fns, LAMBDA f : f.name = call)

\* findCallers testing the text of each call for the name, not the list of calls
FindCallersByText(fns, funcName) ==
    SelectSeq(fns, LAMBDA func : \E i \in 1..Len(func.calls) : Includes(func.calls[i], funcName))

\* findCallers
FindCallers(fns, funcName) ==
    SelectSeq(fns, LAMBDA func : funcName \in Range(func.calls))

\* the calls unfiltered, as the older cmdDeps lists them
ProjectCallsUnfiltered(fns, func) == func.calls

\* func.calls.filter(call => Array.from(functions.values()).find(f => f.name === call))
ProjectCalls(fns, func) ==
    SelectSeq(func.calls, LAMBDA call : FindCalled(fns, call) # 0)

\* one line of output: what it is, the name it carries and a number or value
Line(kind, name, n) == [kind |-> kind, name |-> name, n |-> n]

NotFound(q) == <<Line("notfound", q, 0)>>

(***************************************************************************)
(* callers, deps                                                           *)
(***************************************************************************)
\* cmdCallers
CmdCallersOut(fns, funcName) ==
    LET found == FindFunction(fns, funcName)
        func  == fns[found]
    IN
    IF found = 0 THEN NotFound(funcName)
    ELSE LET callers == FindCallers(fns, func.name) IN
         <<Line("header", func.name, 0)>>
         \o (IF callers = << >> THEN <<Line("none", << >>, 0)>>
             ELSE MapSeq(callers, LAMBDA c : Line("caller", c.name, c.id)))

\* cmdDeps
CmdDepsOut(fns, funcName) ==
    LET found == FindFunction(fns, funcName)
        func  == fns[found]
    IN
    IF found = 0 THEN NotFound(funcName)
    ELSE LET projectCalls == ProjectCalls(fns, func)
             callers      == FindCallers(fns, func.name)
         IN  <<Line("header", func.name, func.id)>>
             \o (IF projectCalls = << >> THEN <<Line("nocalls", << >>, 0)>>
                 ELSE MapSeq(SelectSeq(projectCalls,
                                       LAMBDA call : FindCalled(fns, call) # 0),
                             LAMBDA call : Line("call", call, fns[FindCalled(fns, call)].id)))
             \o (IF callers = << >> THEN <<Line("nocallers", << >>, 0)>>
                 ELSE MapSeq(callers, LAMBDA c : Line("caller", c.name, c.id)))

(***************************************************************************)
(* analyze: call frequency and connected components                        *)
(***************************************************************************)
\* the entries of the call-frequency listing that are printed
TopCalls == 20

RECURSIVE Dedupe(_)
\* the insertion-ordered set of the elements of a sequence
Dedupe(s) ==
    IF s = << >> THEN << >>
    ELSE SetAdd(Dedupe(SubSeq(s, 1, Len(s) - 1)), s[Len(s)])

\* the pairs <<caller name, called name>> in the order the nested forEach of
\* cmdAnalyze meets them: only calls that resolve to a registered function
EdgePairs(fns) ==
    Flatten(MapSeq(fns, LAMBDA func :
        MapSeq(ProjectCalls(fns, func), LAMBDA call : <<func.name, call>>)))

FunctionNames(fns) == {fns[i].name : i \in 1..Len(fns)}

\* a map from each of names to the insertion-ordered set of the other ends of
\* the pairs that have it at position from
RECURSIVE Adjacency(_, _, _)
Adjacency(names, pairs, from) ==
    IF names = << >> THEN << >>
    ELSE (Head(names) :>
            Dedupe(MapSeq(SelectSeq(pairs, LAMBDA e : e[from] = Head(names)),
                          LAMBDA e : e[3 - from])))
         @@ Adjacency(Tail(names), pairs, from)

\* graph: name -> the names it calls
CallGraph(fns) ==
    Adjacency(Dedupe(MapSeq(fns, LAMBDA f : f.name)), EdgePairs(fns), 1)

\* reverseGraph: name -> the names that call it
ReverseGraph(fns) ==
    Adjacency(Dedupe(MapSeq(fns, LAMBDA f : f.name)), EdgePairs(fns), 2)

\* callCounts, in insertion order, as items [w |-> count, v |-> name]
CallCounts(fns) ==
    LET pairs == EdgePairs(fns)
        names == Dedupe(MapSeq(pairs, LAMBDA e : e[2]))
    IN  MapSeq(names, LAMBDA n :
            [w |-> Len(SelectSeq(pairs, LAMBDA e : e[2] = n)), v |-> n])

\* dfs following the calls of a node only
NeighboursCalleesOnly(node, graph, reverseGraph) == graph[node]

\* the neighbours dfs visits from a node: its callees, then its callers
Neighbours(node, graph, reverseGraph) == graph[node] \o reverseGraph[node]

RECURSIVE Dfs(_, _, _, _)
RECURSIVE DfsEach(_, _, _, _)
\* dfs(node, component), st = [visited, component]
Dfs(node, st, graph, reverseGraph) ==
    IF node \in st.visited THEN st
    ELSE DfsEach(Neighbours(node, graph, reverseGraph),
                 [visited |-> st.visited \cup {node},
                  component |-> Append(st.component, node)],
                 graph, reverseGraph)

DfsEach(nodes, st, graph, reverseGraph) ==
    IF nodes = << >> THEN st
    ELSE DfsEach(Tail(nodes), Dfs(Head(nodes), st, graph, reverseGraph),
                 graph, reverseGraph)

\* functions.forEach(func => { if (!visited.has(func.name)) ... }) over the
\* first n records: acc = [visited, components]
RECURSIVE FindComponents(_, _, _, _)
FindComponents(fns, n, graph, reverseGraph) ==
    IF n = 0 THEN [visited |-> {}, components |-> << >>]
    ELSE LET acc == FindComponents(fns, n - 1, graph, reverseGraph) IN
         IF fns[n].name \in acc.visited THEN acc
         ELSE LET st == Dfs(fns[n].name,
                            [visited |-> acc.visited, component |-> << >>],
                            graph, reverseGraph)
              IN  [visited    |-> st.visited,
                   components |-> IF Len(st.component) > 1
                                  THEN Append(acc.components, st.component)
                                  ELSE acc.components]

\* the components left in the order they were found
SortComponentsNot(components) == components

\* components.sort((a, b) => b.length - a.length)
SortComponents(components) ==
    MapSeq(SortDesc(MapSeq(components, LAMBDA c : [w |-> Len(c), v |-> c])),
           LAMBDA item : item.v)

\* functions.size - visited.size
IsolatedCount(fns, visited) == Len(fns) - Cardinality(visited)

\* cmdAnalyze
CmdAnalyzeOut(fns) ==
    LET graph        == CallGraph(fns)
        reverseGraph == ReverseGraph(fns)
        sortedCalls  == SortDesc(CallCounts(fns))
        shownCalls   == SubSeq(sortedCalls, 1,
                               IF Len(sortedCalls) < TopCalls THEN Len(sortedCalls)
                               ELSE TopCalls)
        found        == FindComponents(fns, Len(fns), graph, reverseGraph)
        components   == SortComponents(found.components)
        isolated     == IsolatedCount(fns, found.visited)
    IN  MapSeq(shownCalls, LAMBDA item : Line("frequency", item.v, item.w))
        \o <<Line("components", << >>, Len(components))>>
        \o MapSeq(components, LAMBDA c : Line("group", c, Len(c)))
        \o (IF isolated > 0 THEN <<Line("isolated", << >>, isolated)>> ELSE << >>)

(***************************************************************************)
(* The state of one invocation of the CLI.                                 *)
(***************************************************************************)
VARIABLES
    env,                \* the file system and the loaded project: cwd, configDirs, sourceFiles
    argv,               \* the command and its arguments
    pc,                 \* position: "start", "files", "query", a command's step, "done", "exit"
    functions,          \* the function registry (global Map functions)
    modules,            \* the module grouping (global Map modules)
    typeDefinitions,    \* the type registry (global Map typeDefinitions)
    fileIdx,            \* the source file sourceFiles.forEach of analyze is at
    out,                \* the lines printed so far
    exitCode,           \* -1 while running, then the exit status
    originalFunctions,  \* the copy cmdFind keeps of the registry
    stack               \* the activation records of traceFlow

vars == <<env, argv, pc, functions, modules, typeDefinitions, fileIdx, out,
          exitCode, originalFunctions, stack>>

NoArgv == [cmd |-> "none"]

InitState ==
    /\ argv = NoArgv
    /\ pc = "start"
    /\ functions = << >>
    /\ modules = << >>
    /\ typeDefinitions = << >>
    /\ fileIdx = 0
    /\ out = << >>
    /\ exitCode = -1
    /\ originalFunctions = << >>
    /\ stack = << >>

(***************************************************************************)
(* analyze(): the build every command runs first.                          *)
(***************************************************************************)
\* no tsconfig.json: the error is printed and the process exits with status 1
AnalyzeNoConfig ==
    /\ pc = "start"
    /\ FindTsConfig(env) = Undefined
    /\ out' = Append(out, Line("error", << >>, 1))
    /\ exitCode' = 1
    /\ pc' = "exit"
    /\ UNCHANGED <<env, argv, functions, modules, typeDefinitions, fileIdx,
                   originalFunctions, stack>>

\* the project is loaded and the three registries are cleared
AnalyzeBegin ==
    /\ pc = "start"
    /\ FindTsConfig(env) # Undefined
    /\ functions' = << >>
    /\ modules' = << >>
    /\ typeDefinitions' = << >>
    /\ fileIdx' = 1
    /\ pc' = IF env.sourceFiles = << >> THEN "query" ELSE "files"
    /\ UNCHANGED <<env, argv, out, exitCode, originalFunctions, stack>>

\* one turn of sourceFiles.forEach
AnalyzeFile ==
    /\ pc = "files"
    /\ fileIdx <= Len(env.sourceFiles)
    /\ LET reg == AnalyzeSourceFile(
                      [functions |-> functions, modules |-> modules,
                       types |-> typeDefinitions],
                      env.sourceFiles[fileIdx], env.cwd)
       IN  /\ functions' = reg.functions
           /\ modules' = reg.modules
           /\ typeDefinitions' = reg.types
    /\ fileIdx' = fileIdx + 1
    /\ pc' = IF fileIdx = Len(env.sourceFiles) THEN "query" ELSE "files"
    /\ UNCHANGED <<env, argv, out, exitCode, originalFunctions, stack>>

\* the names a command may be given: every name and qualified name of the
\* registry, every called name, and a name nothing defines or calls
QueryNames(fns) ==
    FunctionNames(fns)
    \cup UNION {Range(fns[i].calls) : i \in 1..Len(fns)}
    \cup {fns[i].className \o <<".">> \o fns[i].name :
            i \in {j \in 1..Len(fns) : fns[j].className # Undefined}}
    \cup {<<"z">>}

\* a command that prints and returns in one step
Finish(cmd, arg, lines) ==
    /\ argv' = [cmd |-> cmd, arg |-> arg]
    /\ out' = out \o lines
    /\ exitCode' = 0
    /\ pc' = "done"

\* callers answering while analyze is still at the source files
CmdCallersEarly ==
    /\ pc \in {"files", "query"}
    /\ \E q \in QueryNames(functions) : Finish("callers", q, CmdCallersOut(functions, q))
    /\ UNCHANGED <<env, functions, modules, typeDefinitions, fileIdx,
                   originalFunctions, stack>>

\* fos callers <function>
CmdCallers ==
    /\ pc = "query"
    /\ \E q \in QueryNames(functions) : Finish("callers", q, CmdCallersOut(functions, q))
    /\ UNCHANGED <<env, functions, modules, typeDefinitions, fileIdx,
                   originalFunctions, stack>>

\* fos deps <function>
CmdDeps ==
    /\ pc = "query"
    /\ \E q \in QueryNames(functions) : Finish("deps", q, CmdDepsOut(functions, q))
    /\ UNCHANGED <<env, functions, modules, typeDefinitions, fileIdx,
                   originalFunctions, stack>>

\* fos analyze
CmdAnalyze ==
    /\ pc = "query"
    /\ Finish("analyze", << >>, CmdAnalyzeOut(functions))
    /\ UNCHANGED <<env, functions, modules, typeDefinitions, fileIdx,
                   originalFunctions, stack>>

(***************************************************************************)
(* tree, stats                                                             *)
(***************************************************************************)
\* modulePath.split(path.sep), read after the part cur
RECURSIVE SplitFrom(_, _)
SplitFrom(p, cur) ==
    IF p = << >> THEN <<cur>>
    ELSE IF Head(p) = "/" THEN <<cur>> \o SplitFrom(Tail(p), << >>)
    ELSE SplitFrom(Tail(p), Append(cur, Head(p)))

Split(p) == SplitFrom(p, << >>)

\* the nodes of the tree of cmdTree, each the parts that lead to it, in the
\* order created: every module path adds the nodes of its parts it is first
\* to need
RECURSIVE TreeNodes(_, _)
TreeNodes(mods, nodes) ==
    IF mods = << >> THEN nodes
    ELSE LET parts == Split(Head(mods).path)
             news  == SelectSeq([i \in 1..Len(parts) |-> SubSeq(parts, 1, i)],
                                LAMBDA node : node \notin Range(nodes))
         IN  TreeNodes(Tail(mods), nodes \o news)

\* value.funcs of a node: the ids of the module whose path ends there
TreeFuncs(mods, node) ==
    LET at == SelectSeq(mods, LAMBDA mod : Split(mod.path) = node)
    IN  IF at = << >> THEN << >> ELSE at[Len(at)].ids

\* displayTree: a node, then its children in the order created
RECURSIVE DisplayTree(_, _, _)
DisplayTree(mods, nodes, parent) ==
    Flatten(MapSeq(SelectSeq(nodes, LAMBDA node :
                        /\ Len(node) = Len(parent) + 1
                        /\ SubSeq(node, 1, Len(parent)) = parent),
                   LAMBDA node :
                        <<[kind |-> "dir", name |-> node[Len(node)],
                           n |-> Len(TreeFuncs(mods, node)), indent |-> Len(parent)]>>
                        \o DisplayTree(mods, nodes, node)))

\* what cmdTree prints
CmdTreeOut(fns, mods) ==
    DisplayTree(mods, TreeNodes(mods, << >>), << >>)
    \o <<[kind |-> "total", name |-> << >>, n |-> Len(fns), modules |-> Len(mods)]>>

\* fos tree
CmdTree ==
    /\ pc = "query"
    /\ Finish("tree", << >>, CmdTreeOut(functions, modules))
    /\ UNCHANGED <<env, functions, modules, typeDefinitions, fileIdx,
                   originalFunctions, stack>>

\* the entries of the most-called listing of stats
MostCalled == 5

\* callCounts of cmdStats: every called name, project-internal or not, with
\* the number of records that call it
StatsCallCounts(fns) ==
    LET called == Flatten(MapSeq(fns, LAMBDA f : f.calls))
    IN  MapSeq(Dedupe(called), LAMBDA n :
            [w |-> Len(SelectSeq(called, LAMBDA c : c = n)), v |-> n])

\* the first record of the greatest size, 0 in an empty registry
Largest(fns) ==
    IF fns = << >> THEN 0
    ELSE CHOOSE i \in 1..Len(fns) :
            /\ \A j \in 1..Len(fns) : fns[j].size <= fns[i].size
            /\ \A j \in 1..(i - 1) : fns[j].size < fns[i].size

RECURSIVE TotalSize(_)
TotalSize(fns) == IF fns = << >> THEN 0 ELSE Head(fns).size + TotalSize(Tail(fns))

\* Math.round(stats.totalSize / stats.total): NaN for 0 / 0
AverageSize(fns) ==
    IF fns = << >> THEN NaN
    ELSE Num((2 * TotalSize(fns) + Len(fns)) \div (2 * Len(fns)))

\* the first record, if any, at which the loop of cmdStats throws:
\* func.name.startsWith('use') of a name that is undefined is a TypeError
StatsThrowsAt(fns) == Find(fns, LAMBDA func : func.name = Undefined)

\* what cmdStats prints when nothing throws (the records of the model do not
\* say which functions are async, and the count of them is left out)
CmdStatsOut(fns) ==
    LET use    == <<"u","s","e">>
        sorted == SortDesc(StatsCallCounts(fns))
        shown  == SubSeq(sorted, 1, IF Len(sorted) < MostCalled THEN Len(sorted)
                                   ELSE MostCalled)
    IN  <<Line("total", << >>, Len(fns)),
          Line("hooks", << >>,
               Len(SelectSeq(fns, LAMBDA f : Len(f.name) >= 3 /\ SubSeq(f.name, 1, 3) = use))),
          Line("exported", << >>, Len(SelectSeq(fns, LAMBDA f : f.exported))),
          Line("average", << >>, AverageSize(fns))>>
        \o (IF Largest(fns) # 0
            THEN <<Line("largest", fns[Largest(fns)].name, fns[Largest(fns)].size)>>
            ELSE << >>)
        \o MapSeq(shown, LAMBDA item : Line("called", item.v, item.w))

\* fos stats
CmdStats ==
    /\ pc = "query"
    /\ argv' = [cmd |-> "stats", arg |-> << >>]
    /\ IF StatsThrowsAt(functions) = 0
       THEN /\ out' = out \o CmdStatsOut(functions)
            /\ exitCode' = 0
            /\ pc' = "done"
       ELSE \* nothing catches the TypeError: node prints it and exits with 1
            /\ out' = Append(out, Line("uncaught", << >>, StatsThrowsAt(functions)))
            /\ exitCode' = 1
            /\ pc' = "exit"
    /\ UNCHANGED <<env, functions, modules, typeDefinitions, fileIdx,
                   originalFunctions, stack>>

\* the values of --module tried by list and ai
ModuleOptions == {Undefined, <<"s","r","c">>, <<"l","i","b">>}

(***************************************************************************)
(* info                                                                    *)
(***************************************************************************)
\* the calls info prints before "... and n more"
InfoCalls == 10

\* path.resolve(p) for a path relative to the working directory
Resolve(cwd, p) ==
    IF p # << >> /\ Head(p) = "/" THEN p
    ELSE IF cwd = <<"/">> THEN cwd \o p
    ELSE cwd \o <<"/">> \o p

\* what cmdInfo prints; the declarations of the model take no parameters, so
\* that the Parameters block is never printed
CmdInfoOut(fns, funcName, cwd) ==
    LET found == FindFunction(fns, funcName) IN
    IF found = 0 THEN NotFound(funcName)
    ELSE LET func    == fns[found]
             callers == FindCallers(fns, func.name)
             shown   == SubSeq(func.calls, 1,
                               IF Len(func.calls) > InfoCalls THEN InfoCalls
                               ELSE Len(func.calls))
         IN  <<Line("header", func.name, 0),
               Line("type", func.type, IF func.exported THEN 1 ELSE 0),
               [kind |-> "location", name |-> func.filePath, n |-> func.line,
                endLine |-> func.endLine, size |-> func.size],
               Line("returns", func.returnType, 0)>>
             \o (IF Len(func.calls) > 0
                 THEN MapSeq(shown, LAMBDA call : Line("calls", call, 0))
                      \o (IF Len(func.calls) > InfoCalls
                          THEN <<Line("more", << >>, Len(func.calls) - InfoCalls)>>
                          ELSE << >>)
                 ELSE << >>)
             \o (IF Len(callers) > 0
                 THEN MapSeq(callers, LAMBDA caller :
                         Line("calledby", caller.name, Basename(caller.filePath)))
                 ELSE IF func.exported THEN <<Line("external", << >>, 0)>>
                 ELSE <<Line("deadcode", << >>, 0)>>)
             \o <<Line("link", Resolve(cwd, func.filePath), func.line)>>

\* fos info <function>
CmdInfo ==
    /\ pc = "query"
    /\ \E q \in QueryNames(functions) :
          Finish("info", q, CmdInfoOut(functions, q, env.cwd))
    /\ UNCHANGED <<env, functions, modules, typeDefinitions, fileIdx,
                   originalFunctions, stack>>

(***************************************************************************)
(* read                                                                    *)
(***************************************************************************)
\* the first loop giving up at the first name that is not found
FuncsToReadUntilMissing(fns, functionNames) ==
    LET missing == Find(functionNames, LAMBDA name : FindFunction(fns, name) = 0)
        tried   == IF missing = 0 THEN functionNames
                   ELSE SubSeq(functionNames, 1, missing - 1)
    IN  MapSeq(tried, LAMBDA name : fns[FindFunction(fns, name)])

\* the first loop of cmdRead: the records found, in the order of the names
FuncsToRead(fns, functionNames) ==
    MapSeq(SelectSeq(functionNames, LAMBDA name : FindFunction(fns, name) # 0),
           LAMBDA name : fns[FindFunction(fns, name)])

\* sed -n '<line>,<endLine>p' <filePath>, after the imports when asked for
ReadCommand(func, withContext) ==
    [kind |-> "sed", name |-> func.filePath, n |-> func.line,
     endLine |-> func.endLine, context |-> withContext]

\* what cmdRead prints
CmdReadOut(fns, functionNames, withContext) ==
    LET funcsToRead == FuncsToRead(fns, functionNames)
        missing == SelectSeq(functionNames, LAMBDA name : FindFunction(fns, name) = 0)
    IN  MapSeq(missing, LAMBDA name : Line("notfound", name, 0))
        \o (IF funcsToRead = << >> THEN << >>
            ELSE <<Line("header", << >>, Len(funcsToRead))>>
                 \o Flatten(MapSeq(funcsToRead, LAMBDA func :
                        <<Line("comment", func.name, 0), ReadCommand(func, withContext)>>))
                 \o <<[kind |-> "combined", name |-> << >>, n |-> Len(funcsToRead),
                       commands |-> MapSeq(funcsToRead, LAMBDA func :
                                        ReadCommand(func, withContext))]>>)

\* fos read <functions...> [-c]
CmdRead ==
    /\ pc = "query"
    /\ \E k \in 1..MaxNames, withContext \in BOOLEAN :
          \E functionNames \in [1..k -> QueryNames(functions)] :
              /\ argv' = [cmd |-> "read", arg |-> functionNames, context |-> withContext]
              /\ out' = out \o CmdReadOut(functions, functionNames, withContext)
              /\ exitCode' = 0
              /\ pc' = "done"
    /\ UNCHANGED <<env, functions, modules, typeDefinitions, fileIdx,
                   originalFunctions, stack>>

(***************************************************************************)
(* graph                                                                   *)
(***************************************************************************)
\* an edge of a rendered graph: the caller, the called name, and a number
Edge(from, call, n) == [kind |-> "edge", name |-> call, n |-> n, from |-> from]

\* functionsToShow: every record when no name is given, else the record the
\* name resolves to, if any
FunctionsToShow(fns, funcName) ==
    IF funcName = Undefined THEN fns
    ELSE LET found == FindFunction(fns, funcName)
         IN  IF found = 0 THEN << >> ELSE <<fns[found]>>

\* generateTextGraph
GenerateTextGraph(fns, funcName) ==
    LET functionsToShow == FunctionsToShow(fns, funcName) IN
    IF functionsToShow = << >> THEN NotFound(funcName)
    ELSE Flatten(MapSeq(functionsToShow, LAMBDA func :
            <<Line("node", func.name, func.line)>>
            \o MapSeq(SelectSeq(ProjectCalls(fns, func),
                                LAMBDA call : FindCalled(fns, call) # 0),
                      LAMBDA call : Edge(func.name, call, fns[FindCalled(fns, call)].line))
            \o MapSeq(FindCallers(fns, func.name),
                      LAMBDA caller : Line("calledby", caller.name, caller.line))))

\* getNodeId: the names seen so far, in the order seen; the id of a name is F
\* and its position counted from 0
NodeIdsAdd(nodeIds, name) ==
    IF name \in Range(nodeIds) THEN nodeIds ELSE Append(nodeIds, name)

NodeId(nodeIds, name) == (CHOOSE i \in 1..Len(nodeIds) : nodeIds[i] = name) - 1

\* projectCalls.forEach of generateMermaidGraph: the lines and the ids after it
RECURSIVE MermaidCalls(_, _, _, _)
MermaidCalls(func, projectCalls, nodeIds, lines) ==
    IF projectCalls = << >> THEN [lines |-> lines, nodeIds |-> nodeIds]
    ELSE LET call == Head(projectCalls)
             ids  == NodeIdsAdd(nodeIds, call)
         IN  MermaidCalls(func, Tail(projectCalls), ids,
                 lines \o <<Line("node", call, NodeId(ids, call)),
                            [kind |-> "edge", name |-> call, n |-> NodeId(ids, call),
                             from |-> func.name, fromId |-> NodeId(ids, func.name)]>>)

\* functionsToShow.forEach of generateMermaidGraph
RECURSIVE MermaidNodes(_, _, _, _)
MermaidNodes(fns, functionsToShow, nodeIds, lines) ==
    IF functionsToShow = << >> THEN lines
    ELSE LET func  == Head(functionsToShow)
             ids   == NodeIdsAdd(nodeIds, func.name)
             calls == MermaidCalls(func, ProjectCalls(fns, func), ids,
                                   <<Line("node", func.name, NodeId(ids, func.name))>>)
         IN  MermaidNodes(fns, Tail(functionsToShow), calls.nodeIds, lines \o calls.lines)

\* generateMermaidGraph: its "not found" comment names no function
GenerateMermaidGraph(fns, funcName) ==
    LET functionsToShow == FunctionsToShow(fns, funcName) IN
    <<Line("open", << >>, 0)>>
    \o (IF functionsToShow = << >> THEN <<Line("notfound", << >>, 0)>>
        ELSE MermaidNodes(fns, functionsToShow, << >>, << >>))
    \o <<Line("close", << >>, 0)>>

\* generateDotGraph
GenerateDotGraph(fns, funcName) ==
    LET functionsToShow == FunctionsToShow(fns, funcName) IN
    <<Line("open", << >>, 0)>>
    \o (IF functionsToShow = << >> THEN <<Line("notfound", << >>, 0)>>
        ELSE Flatten(MapSeq(functionsToShow, LAMBDA func :
                MapSeq(ProjectCalls(fns, func), LAMBDA call : Edge(func.name, call, 0)))))
    \o <<Line("close", << >>, 0)>>

\* the values of --format tried: the default, the two others, and one the
\* command does not know, which is rendered as text
Formats == {"text", "mermaid", "dot", "svg"}

\* cmdGraph
CmdGraphOut(fns, funcName, format) ==
    IF format = "mermaid" THEN GenerateMermaidGraph(fns, funcName)
    ELSE IF format = "dot" THEN GenerateDotGraph(fns, funcName)
    ELSE GenerateTextGraph(fns, funcName)

\* fos graph [function] [-f <format>]
CmdGraph ==
    /\ pc = "query"
    /\ \E q \in QueryNames(functions) \cup {Undefined}, format \in Formats :
          /\ argv' = [cmd |-> "graph", arg |-> q, format |-> format]
          /\ out' = out \o CmdGraphOut(functions, q, format)
    /\ exitCode' = 0
    /\ pc' = "done"
    /\ UNCHANGED <<env, functions, modules, typeDefinitions, fileIdx,
                   originalFunctions, stack>>

(***************************************************************************)
(* ai                                                                      *)
(***************************************************************************)
\* the functions of a module the overview of ai lists
OverviewFuncs == 10

\* functions.get(id), as a sequence of the record or of nothing
FunctionsGet(fns, id) == SelectSeq(fns, LAMBDA f : f.id = id)

\* what cmdAI prints: a module, a function, or the overview
CmdAIOut(fns, mods, module, function) ==
    IF module # Undefined
    THEN LET moduleFuncs == SelectSeq(fns, LAMBDA f : Includes(f.filePath, module))
         IN  <<Line("module", module, Len(moduleFuncs))>>
             \o MapSeq(SelectSeq(moduleFuncs, LAMBDA f : f.exported),
                       LAMBDA f : Line("api", f.name, f.returnType))
             \o MapSeq(SelectSeq(moduleFuncs, LAMBDA f : ~f.exported),
                       LAMBDA f : Line("internal", f.name, 0))
    ELSE IF function # Undefined
    THEN LET found == FindFunction(fns, function) IN
         IF found = 0 THEN NotFound(function)
         ELSE LET func == fns[found]
              IN  <<Line("header", func.name, 0),
                    Line("location", func.filePath, func.line),
                    Line("signature", func.name, func.returnType)>>
                  \o (IF Len(func.calls) > 0
                      THEN <<Line("dependencies", func.calls, 0)>> ELSE << >>)
    ELSE <<Line("overview", << >>, Len(fns))>>
         \o Flatten(MapSeq(mods, LAMBDA mod :
                <<Line("module", mod.path, Len(mod.ids))>>
                \o Flatten(MapSeq(SubSeq(mod.ids, 1,
                                         IF Len(mod.ids) > OverviewFuncs
                                         THEN OverviewFuncs ELSE Len(mod.ids)),
                       LAMBDA id : MapSeq(FunctionsGet(fns, id),
                                          LAMBDA f : Line("function", f.name, 0))))
                \o (IF Len(mod.ids) > OverviewFuncs
                    THEN <<Line("more", << >>, Len(mod.ids) - OverviewFuncs)>>
                    ELSE << >>)))

\* fos ai [-m <path>] [-f <name>]
CmdAI ==
    /\ pc = "query"
    /\ \E module \in ModuleOptions, function \in QueryNames(functions) \cup {Undefined} :
          /\ argv' = [cmd |-> "ai", module |-> module, arg |-> function]
          /\ out' = out \o CmdAIOut(functions, modules, module, function)
    /\ exitCode' = 0
    /\ pc' = "done"
    /\ UNCHANGED <<env, functions, modules, typeDefinitions, fileIdx,
                   originalFunctions, stack>>

(***************************************************************************)
(* type                                                                    *)
(***************************************************************************)
\* what cmdType prints
CmdTypeOut(types, typeName, cwd) ==
    IF \E i \in 1..Len(types) : types[i].name = typeName
    THEN LET typeDef == types[CHOOSE i \in 1..Len(types) : types[i].name = typeName]
         IN  <<Line("header", typeName, 0),
               Line("location", typeDef.filePath, typeDef.line),
               Line("definition", typeDef.definition, 0),
               Line("link", Resolve(cwd, typeDef.filePath), typeDef.line)>>
    ELSE <<Line("notfound", typeName, 0)>>

\* fos type <type>, asked for a registered name or for one nothing defines
CmdType ==
    /\ pc = "query"
    /\ \E q \in {typeDefinitions[i].name : i \in 1..Len(typeDefinitions)} \cup {<<"Z">>} :
          Finish("type", q, CmdTypeOut(typeDefinitions, q, env.cwd))
    /\ UNCHANGED <<env, functions, modules, typeDefinitions, fileIdx,
                   originalFunctions, stack>>

(***************************************************************************)
(* list and find                                                           *)
(***************************************************************************)
\* the keys of grouped, in insertion order: the directory of each record
ModuleDirs(fns) == Dedupe(MapSeq(fns, LAMBDA f : Dirname(f.filePath)))

\* cmdList(options); module is Undefined when options.module is not given
CmdListOut(fns, exports, module) ==
    LET exported == IF exports THEN SelectSeq(fns, LAMBDA f : f.exported) ELSE fns
        filtered == IF module = Undefined THEN exported
                    ELSE SelectSeq(exported, LAMBDA f : Includes(f.filePath, module))
        Group(dir) == SelectSeq(filtered, LAMBDA f : Dirname(f.filePath) = dir)
    IN  Flatten(MapSeq(ModuleDirs(filtered), LAMBDA dir :
            <<Line("module", dir, Len(Group(dir)))>>
            \o MapSeq(Group(dir), LAMBDA f : Line("function", f.name, f.id))))
        \o <<Line("total", << >>, Len(filtered))>>

\* fos list [-e] [-m <path>]
CmdList ==
    /\ pc = "query"
    /\ \E exports \in BOOLEAN, module \in ModuleOptions :
          /\ argv' = [cmd |-> "list", exports |-> exports, module |-> module]
          /\ out' = out \o CmdListOut(functions, exports, module)
    /\ exitCode' = 0
    /\ pc' = "done"
    /\ UNCHANGED <<env, functions, modules, typeDefinitions, fileIdx,
                   originalFunctions, stack>>

\* new RegExp(pattern, 'i') for patterns made of letters, "^", "(" and ")":
\* it throws exactly when a group is left open or closed without being opened
RECURSIVE GroupsBalanced(_, _)
GroupsBalanced(pattern, open) ==
    IF pattern = << >> THEN open = 0
    ELSE IF Head(pattern) = "(" THEN GroupsBalanced(Tail(pattern), open + 1)
    ELSE IF Head(pattern) = ")"
         THEN open > 0 /\ GroupsBalanced(Tail(pattern), open - 1)
    ELSE GroupsBalanced(Tail(pattern), open)

RegExpCompiles(pattern) == GroupsBalanced(pattern, 0)

\* the atoms a compiled pattern matches in sequence: groups only bracket them
Atoms(pattern) == SelectSeq(pattern, LAMBDA c : c # "(" /\ c # ")")

\* the character test without the i flag
CharMatchesExactly(c, t) == c = t

\* a pattern character matches a text character under the i flag
CharMatches(c, t) == LowerChar(c) = LowerChar(t)

\* the atoms from k on match text from position pos on, ignoring case
RECURSIVE MatchAt(_, _, _, _)
MatchAt(atoms, k, text, pos) ==
    IF k > Len(atoms) THEN TRUE
    ELSE IF atoms[k] = "^" THEN pos = 1 /\ MatchAt(atoms, k + 1, text, pos)
    ELSE /\ pos <= Len(text)
         /\ CharMatches(atoms[k], text[pos])
         /\ MatchAt(atoms, k + 1, text, pos + 1)

\* regex.test(text) for regex = new RegExp(pattern, 'i')
RegExpTest(pattern, text) ==
    \E start \in 1..(Len(text) + 1) : MatchAt(Atoms(pattern), 1, text, start)

\* the fallback test without the two toLowerCase()
NameIncludesExactly(pattern, name) == Includes(name, pattern)

\* func.name.toLowerCase().includes(pattern.toLowerCase())
NameIncludes(pattern, name) == Includes(ToLowerCase(name), ToLowerCase(pattern))

\* the text regex.test makes of its argument: String(undefined) for a name
\* that is undefined
TextOf(name) ==
    IF name = Undefined THEN <<"u","n","d","e","f","i","n","e","d">> ELSE name

\* the test cmdFind applies to a name
FindMatches(pattern, name) ==
    IF RegExpCompiles(pattern) THEN RegExpTest(pattern, TextOf(name))
    ELSE NameIncludes(pattern, name)

\* the first record, if any, at which the fallback loop of cmdFind throws:
\* func.name.toLowerCase() of a name that is undefined is a TypeError
FindThrowsAt(original, pattern) ==
    IF RegExpCompiles(pattern) THEN 0
    ELSE Find(original, LAMBDA func : func.name = Undefined)

\* the registry cmdFind leaves in functions while it lists: the records of the
\* copy whose name passes the test, in the order of the copy
FindFiltered(original, pattern) ==
    SelectSeq(original, LAMBDA func : FindMatches(pattern, func.name))

\* functions.clear(); originalFunctions.forEach((func, id) => functions.set(id, func))
RECURSIVE Restore(_, _)
Restore(fns, original) ==
    IF original = << >> THEN fns
    ELSE Restore(FunctionsSet(fns, Head(original)), Tail(original))

PatternChars == {"^", "(", ")", "u", "s", "e", "U"}

Patterns == UNION {[1..k -> PatternChars] : k \in 0..MaxPatLen}

\* cmdFind, first part: copy the registry, clear it, compile the pattern and
\* put back the records that match (after the warning, when it does not compile)
FindFilter ==
    /\ pc = "query"
    /\ \E pattern \in Patterns :
        /\ argv' = [cmd |-> "find", arg |-> pattern]
        /\ originalFunctions' = functions
        /\ LET thrown == FindThrowsAt(functions, pattern) IN
           IF thrown = 0
           THEN /\ functions' = Restore(<< >>, FindFiltered(functions, pattern))
                /\ out' = IF RegExpCompiles(pattern) THEN out
                          ELSE Append(out, Line("warning", pattern, 0))
                /\ pc' = "find.list"
                /\ UNCHANGED exitCode
           ELSE \* nothing catches the TypeError: the records put back so far
                \* stay, node prints the error and exits with status 1
                /\ functions' = Restore(<< >>,
                        FindFiltered(SubSeq(functions, 1, thrown - 1), pattern))
                /\ out' = out \o <<Line("warning", pattern, 0),
                                   Line("uncaught", << >>, thrown)>>
                /\ pc' = "exit"
                /\ exitCode' = 1
    /\ UNCHANGED <<env, modules, typeDefinitions, fileIdx, stack>>

\* cmdFind, second part: cmdList({ exports: false, module: null })
FindList ==
    /\ pc = "find.list"
    /\ out' = out \o CmdListOut(functions, FALSE, Undefined)
    /\ pc' = "find.restore"
    /\ UNCHANGED <<env, argv, functions, modules, typeDefinitions, fileIdx,
                   exitCode, originalFunctions, stack>>

\* cmdFind returning with the registry it listed
FindRestoreNothing ==
    /\ pc = "find.restore"
    /\ functions' = functions
    /\ exitCode' = 0
    /\ pc' = "done"
    /\ UNCHANGED <<env, argv, modules, typeDefinitions, fileIdx, out,
                   originalFunctions, stack>>

\* cmdFind, last part: the registry is cleared and refilled from the copy
FindRestore ==
    /\ pc = "find.restore"
    /\ functions' = Restore(<< >>, originalFunctions)
    /\ exitCode' = 0
    /\ pc' = "done"
    /\ UNCHANGED <<env, argv, modules, typeDefinitions, fileIdx, out,
                   originalFunctions, stack>>

(***************************************************************************)
(* flow                                                                    *)
(***************************************************************************)
Digits == <<"0","1","2","3","4","5","6","7","8","9">>

IsDigit(c) == \E i \in 1..10 : Digits[i] = c

DigitValue(c) == (CHOOSE i \in 1..10 : Digits[i] = c) - 1

\* the value of the longest prefix of digits of text, read after acc
RECURSIVE ParseDigits(_, _)
ParseDigits(text, acc) ==
    IF text = << >> \/ ~IsDigit(Head(text)) THEN acc
    ELSE ParseDigits(Tail(text), 10 * acc + DigitValue(Head(text)))

\* parseInt(text): an optional sign and the leading digits, NaN without digits
ParseInt(text) ==
    LET neg  == text # << >> /\ Head(text) = "-"
        rest == IF text # << >> /\ Head(text) \in {"-", "+"} THEN Tail(text) ELSE text
    IN  IF rest = << >> \/ ~IsDigit(Head(rest)) THEN NaN
        ELSE IF neg THEN Num(0 - ParseDigits(rest, 0)) ELSE Num(ParseDigits(rest, 0))

\* the default of --depth
DefaultDepth == <<"3">>

\* the default depth whatever --depth says
FlowDepthDefault(depthOption) == ParseInt(DefaultDepth)

\* parseInt(options.depth || '3')
FlowDepth(depthOption) ==
    ParseInt(IF depthOption = << >> THEN DefaultDepth ELSE depthOption)

\* the depth test with >= for >
DepthExceededFrom(currentDepth, depth) == ~depth.nan /\ currentDepth >= depth.n

\* currentDepth > depth, false for depth NaN
DepthExceeded(currentDepth, depth) == ~depth.nan /\ currentDepth > depth.n

\* the path test left out
VisitedHasNothing(visited, name) == FALSE

\* visited.has(currentFunc.name)
VisitedHas(visited, name) == name \in visited

\* the values of options.depth: the default, a number, no text, not a number
DepthOptions ==
    {DefaultDepth, << >>, <<"x">>} \cup {<<Digits[d + 1]>> : d \in 0..MaxDepth}

\* an activation of traceFlow(currentFunc, currentDepth, visited)
Frame(func, depth, visited) ==
    [func |-> func, depth |-> depth, visited |-> visited,
     entered |-> FALSE, calls |-> << >>, idx |-> 0]

Top == stack[Len(stack)]

Pop == SubSeq(stack, 1, Len(stack) - 1)

\* one set of visited names for the whole traversal
VisitedShared(callerVisited, calleeVisited) == callerVisited \cup calleeVisited

\* traceFlow(calledFunc, currentDepth + 1, new Set(visited), newPrefix): what
\* the callee adds to its copy does not reach the set of the caller
VisitedCopied(callerVisited, calleeVisited) == callerVisited

\* the activations left when the current one returns
Returned ==
    IF Len(stack) < 2 THEN Pop
    ELSE Append(SubSeq(stack, 1, Len(stack) - 2),
                [stack[Len(stack) - 1] EXCEPT
                    !.visited = VisitedCopied(@, Top.visited)])

\* the function flow is asked for: the first declared one (the projects are
\* closed under renaming the functions), a name nothing defines, and a
\* method by its name and by its qualified name
FlowQueries == {<<"a">>, <<"z">>, <<"m">>, <<"L", ".", "m">>}

\* cmdFlow up to the first call of traceFlow, or its "not found"
FlowStart ==
    /\ pc = "query"
    /\ \E q \in FlowQueries, depthOption \in DepthOptions :
        LET found == FindFunction(functions, q) IN
        /\ argv' = [cmd |-> "flow", arg |-> q, depth |-> depthOption]
        /\ IF found = 0
           THEN /\ out' = out \o NotFound(q)
                /\ stack' = << >>
                /\ exitCode' = 0
                /\ pc' = "done"
           ELSE /\ out' = Append(out, Line("header", functions[found].name, 0))
                /\ stack' = <<Frame(found, 0, {})>>
                /\ exitCode' = exitCode
                /\ pc' = "flow"
    /\ UNCHANGED <<env, functions, modules, typeDefinitions, fileIdx,
                   originalFunctions>>

\* what is left once the activations in rest are: the command ends with the
\* last return
Unwind(rest) ==
    /\ stack' = rest
    /\ pc' = IF rest = << >> THEN "done" ELSE "flow"
    /\ exitCode' = IF rest = << >> THEN 0 ELSE exitCode

\* traceFlow is entered: it returns at once beyond the depth or on a name of
\* the current path (printed as circular), else prints the node and filters
\* its calls
FlowEnter ==
    /\ pc = "flow"
    /\ ~Top.entered
    /\ LET currentFunc == functions[Top.func]
           depth == FlowDepth(argv.depth)
           circular == VisitedHas(Top.visited, currentFunc.name)
       IN  IF DepthExceeded(Top.depth, depth) \/ circular
           THEN /\ out' = IF circular
                          THEN Append(out, Line("circular", currentFunc.name, Top.depth))
                          ELSE out
                /\ Unwind(Returned)
           ELSE /\ out' = Append(out, Line("node", currentFunc.name, Top.depth))
                /\ stack' = Append(Pop,
                      [Top EXCEPT !.entered = TRUE,
                                  !.visited = @ \cup {currentFunc.name},
                                  !.calls = ProjectCalls(functions, currentFunc),
                                  !.idx = 1])
                /\ UNCHANGED <<pc, exitCode>>
    /\ UNCHANGED <<env, argv, functions, modules, typeDefinitions, fileIdx,
                   originalFunctions>>

\* one turn of projectCalls.forEach: the call is printed and traced with a
\* copy of visited
FlowCall ==
    /\ pc = "flow"
    /\ Top.entered
    /\ Top.idx <= Len(Top.calls)
    /\ LET call == Top.calls[Top.idx]
           calledFunc == FindCalled(functions, call)
       IN  IF calledFunc # 0
           THEN /\ out' = Append(out, Line("edge", call, Top.depth + 1))
                /\ stack' = Append(Append(Pop, [Top EXCEPT !.idx = @ + 1]),
                                   Frame(calledFunc, Top.depth + 1, Top.visited))
           ELSE /\ out' = out
                /\ stack' = Append(Pop, [Top EXCEPT !.idx = @ + 1])
    /\ UNCHANGED <<env, argv, pc, functions, modules, typeDefinitions, fileIdx,
                   exitCode, originalFunctions>>

\* projectCalls.forEach is over: traceFlow returns
FlowReturn ==
    /\ pc = "flow"
    /\ Top.entered
    /\ Top.idx > Len(Top.calls)
    /\ Unwind(Returned)
    /\ UNCHANGED <<env, argv, functions, modules, typeDefinitions, fileIdx, out,
                   originalFunctions>>

(***************************************************************************)
(* Projects.  A project is built from function declarations (slots) and an *)
(* assignment of call expressions to them.                                 *)
(***************************************************************************)
\* A call expression of a project is coded by a number: code c over n callees
\* stands for callee ((c - 1) % n) + 1 in the declaration ((c - 1) \div n) + 1.
SlotOfCode(c, n) == ((c - 1) \div n) + 1

\* the sequences of k codes of 1..hi, each in a slot no earlier than the one
\* before: any call expressions in any order, declaration by declaration
RECURSIVE SlotOrdered(_, _, _, _)
SlotOrdered(k, loSlot, n, hi) ==
    IF k = 0 THEN {<< >>}
    ELSE UNION {{<<c>> \o rest : rest \in SlotOrdered(k - 1, SlotOfCode(c, n), n, hi)}
                : c \in {d \in 1..hi : SlotOfCode(d, n) >= loSlot}}

\* the increasing sequences of k codes of lo..hi: sets of distinct calls
RECURSIVE Increasing(_, _, _)
Increasing(k, lo, hi) ==
    IF k = 0 THEN {<< >>}
    ELSE UNION {{<<c>> \o rest : rest \in Increasing(k - 1, c + 1, hi)} : c \in lo..hi}

\* the pairs <<slot, call expression>> a sequence of codes stands for
RECURSIVE Decode(_, _)
Decode(codes, callees) ==
    IF codes = << >> THEN << >>
    ELSE <<<<SlotOfCode(Head(codes), Len(callees)),
             callees[((Head(codes) - 1) % Len(callees)) + 1]>>>>
         \o Decode(Tail(codes), callees)

CallsOfSlot(assign, i) ==
    MapSeq(SelectSeq(assign, LAMBDA e : e[1] = i), LAMBDA e : e[2])

\* the function declarations first..last of names, with their call expressions
SlotFunctions(names, first, last, assign) ==
    [k \in 1..(last - first + 1) |->
        LET i == first + k - 1 IN
        FuncNode(names[i], TRUE, 10 * i, 10 * i + 2, CallsOfSlot(assign, i))]

Cwd == <<"/","p">>
SrcFile == <<"/","p","/","s","r","c","/","m",".","t","s">>
LibFile == <<"/","p","/","l","i","b","/","n",".","t","s">>

\* a class K with one method of the given name and no calls
ClassWith(methodName) ==
    ClassNode(<<"K">>, << >>, <<FuncNode(methodName, TRUE, 90, 95, << >>)>>, << >>, << >>)

\* the first `split` declarations are in src/m.ts, the rest in lib/n.ts; with
\* dup, src/m.ts also has a class K whose method has the name of the first
GraphEnv(names, split, assign, dup) ==
    [cwd |-> Cwd,
     configDirs |-> {Cwd},
     sourceFiles |->
        <<SourceFile(SrcFile, SlotFunctions(names, 1, split, assign), << >>,
                     IF dup THEN <<ClassWith(names[1])>> ELSE << >>),
          SourceFile(LibFile, SlotFunctions(names, split + 1, Len(names), assign),
                     << >>, << >>)>>]

Ident(c) == CallIdent(<<c>>)

\* three functions a, b, c calling each other, an external x and a method o.b
CallGraphNames == <<<<"a">>, <<"b">>, <<"c">>>>
CallGraphCallees ==
    <<Ident("a"), Ident("b"), Ident("c"), Ident("x"), CallProp(<<"o">>, TRUE, <<"b">>)>>

InitCallGraph ==
    /\ \E k \in 0..MaxEdges :
         \E codes \in SlotOrdered(k, 1, Len(CallGraphCallees),
                                  Len(CallGraphNames) * Len(CallGraphCallees)) :
            env = GraphEnv(CallGraphNames, 2, Decode(codes, CallGraphCallees), FALSE)
    /\ InitState

NextCallGraph == AnalyzeBegin \/ AnalyzeFile \/ CmdCallers \/ CmdDeps

SpecCallGraph == InitCallGraph /\ [][NextCallGraph]_vars

\* five functions a..e and an external x; with dup, a method K.a as well,
\* which counts as one of the MaxEdges parts of the project
AnalyzeNames == <<<<"a">>, <<"b">>, <<"c">>, <<"d">>, <<"e">>>>
AnalyzeCallees ==
    <<Ident("a"), Ident("b"), Ident("c"), Ident("d"), Ident("e"), Ident("x")>>

InitAnalyze ==
    /\ \E dup \in BOOLEAN :
       \E k \in 0..(IF dup THEN MaxEdges - 1 ELSE MaxEdges) :
         \E codes \in Increasing(k, 1, Len(AnalyzeNames) * Len(AnalyzeCallees)) :
            env = GraphEnv(AnalyzeNames, 2, Decode(codes, AnalyzeCallees), dup)
    /\ InitState

NextAnalyze == AnalyzeBegin \/ AnalyzeFile \/ CmdAnalyze

SpecAnalyze == InitAnalyze /\ [][NextAnalyze]_vars

\* four functions a..d calling each other and an external x
FlowNames == <<<<"a">>, <<"b">>, <<"c">>, <<"d">>>>
FlowCallees == <<Ident("a"), Ident("b"), Ident("c"), Ident("d"), Ident("x")>>

InitFlow ==
    /\ \E k \in 0..MaxEdges :
         \E codes \in SlotOrdered(k, 1, Len(FlowCallees),
                                  Len(FlowNames) * Len(FlowCallees)) :
            env = GraphEnv(FlowNames, 2, Decode(codes, FlowCallees), FALSE)
    /\ InitState

NextFlow ==
    AnalyzeBegin \/ AnalyzeFile \/ FlowStart \/ FlowEnter \/ FlowCall \/ FlowReturn

\* node runs the handler to its end: a step that can be taken is taken
SpecFlow == InitFlow /\ [][NextFlow]_vars /\ WF_vars(NextFlow)

\* three functions a..c calling each other, in every order
CycleNames == <<<<"a">>, <<"b">>, <<"c">>>>
CycleCallees == <<Ident("a"), Ident("b"), Ident("c")>>

InitFlowCycle ==
    /\ \E k \in 0..MaxEdges :
         \E codes \in SlotOrdered(k, 1, Len(CycleCallees),
                                  Len(CycleNames) * Len(CycleCallees)) :
            env = GraphEnv(CycleNames, 2, Decode(codes, CycleCallees), FALSE)
    /\ InitState

\* node runs the handler to its end: a step that can be taken is taken
SpecFlowCycle == InitFlowCycle /\ [][NextFlow]_vars /\ WF_vars(NextFlow)

UseAuth == <<"u","s","e","A","u","t","h">>
UseForm == <<"u","s","e","F","o","r","m">>
Usekey  == <<"U","s","e","k","e","y">>
Reuse   == <<"r","e","u","s","e">>
\* the name text of a method declared with the string literal name '(use'
QuotedName == <<"'","(","u","s","e","'">>

PlainFunction(name, line) == FuncNode(name, TRUE, line, line + 4, << >>)

\* useAuth, useForm and Usekey, with or without a function reuse and a class
\* whose method has a string literal name
FindEnv(quoted, reuse) ==
    [cwd |-> Cwd,
     configDirs |-> {Cwd},
     sourceFiles |->
        <<SourceFile(SrcFile,
                     <<PlainFunction(UseAuth, 1), PlainFunction(UseForm, 11)>>,
                     << >>,
                     IF quoted THEN <<ClassWith(QuotedName)>> ELSE << >>),
          SourceFile(LibFile,
                     <<PlainFunction(Usekey, 1)>>
                     \o (IF reuse THEN <<PlainFunction(Reuse, 11)>> ELSE << >>),
                     << >>, << >>)>>]

InitFind ==
    /\ \E quoted \in BOOLEAN, reuse \in BOOLEAN : env = FindEnv(quoted, reuse)
    /\ InitState

NextFind == AnalyzeBegin \/ AnalyzeFile \/ FindFilter \/ FindList \/ FindRestore

SpecFind == InitFind /\ [][NextFind]_vars

\* a property assignment of an object literal: its value is an arrow function,
\* a function expression or another expression, or it is a method shorthand
PropKinds == {"arrow", "funcexpr", "method", "other"}

InitKinds == {"arrow", "funcexpr", "object", "other"}

PropNames == <<"f", "g", "h", "i">>

Prop(i, kind) == [name |-> <<PropNames[i]>>, kind |-> kind, body |-> << >>]

Config == <<"c","o","n","f","i","g">>
Helper == <<"h","e","l","p","e","r">>
VendorFile == <<"/","p","/","n","o","d","e","_","m","o","d","u","l","e","s","/","v",".","t","s">>

\* src/m.ts declares `const config = ...` and `const helper = ...`, and a file
\* under node_modules declares a function; tsconfig.json is there or not
ExtractEnv(hasConfig, configKind, propKinds, helperKind) ==
    [cwd |-> Cwd,
     configDirs |-> IF hasConfig THEN {Cwd} ELSE {},
     sourceFiles |->
        <<SourceFile(SrcFile, << >>,
                     <<VarNode(Config, 1, 3 + Len(propKinds), configKind, << >>,
                               [i \in 1..Len(propKinds) |-> Prop(i, propKinds[i])]),
                       VarNode(Helper, 10, 12, helperKind, <<Ident("x")>>, << >>)>>,
                     << >>),
          SourceFile(VendorFile, <<PlainFunction(<<"v">>, 1)>>, << >>, << >>)>>]

InitExtract ==
    /\ \E hasConfig \in BOOLEAN, configKind \in InitKinds, helperKind \in InitKinds,
          k \in 0..MaxProps :
          \E propKinds \in [1..k -> PropKinds] :
             /\ (configKind # "object" => k = 0)
             /\ env = ExtractEnv(hasConfig, configKind, propKinds, helperKind)
    /\ InitState

NextExtract == AnalyzeNoConfig \/ AnalyzeBegin \/ AnalyzeFile \/ CmdList

SpecExtract == InitExtract /\ [][NextExtract]_vars

\* the working directories tried, and the directories that may hold a
\* tsconfig.json
WorkDirs == {<<"/">>, Cwd, Cwd \o <<"/","q">>}
ConfigDirs == SUBSET (WorkDirs \cup {<<"/","x">>})

\* a project of one or two source files below the working directory
ConfigEnv(cwd, dirs, two) ==
    [cwd |-> cwd,
     configDirs |-> dirs,
     sourceFiles |->
        <<SourceFile(Resolve(cwd, <<"s","r","c","/","m",".","t","s">>),
                     <<FuncNode(<<"f">>, TRUE, 1, 3, <<Ident("g")>>)>>, << >>, << >>)>>
        \o (IF two
            THEN <<SourceFile(Resolve(cwd, <<"l","i","b","/","n",".","t","s">>),
                              <<FuncNode(<<"g">>, TRUE, 1, 3, << >>)>>, << >>, << >>)>>
            ELSE << >>)]

InitConfig ==
    /\ \E cwd \in WorkDirs, dirs \in ConfigDirs, two \in BOOLEAN :
          env = ConfigEnv(cwd, dirs, two)
    /\ InitState

NextConfig == AnalyzeNoConfig \/ AnalyzeBegin \/ AnalyzeFile \/ CmdList

SpecConfig == InitConfig /\ [][NextConfig]_vars

\* src/m.ts declares the functions use and sue, the type T and, between the
\* two functions, `export default function () {}` or nothing
ExitEnv(dirs, unnamed) ==
    [cwd |-> Cwd,
     configDirs |-> dirs,
     sourceFiles |->
        <<[SourceFile(SrcFile,
                      <<PlainFunction(<<"u","s","e">>, 1)>>
                      \o (IF unnamed THEN <<FuncNode(Undefined, TRUE, 11, 13, << >>)>>
                          ELSE << >>)
                      \o <<PlainFunction(<<"s","u","e">>, 21)>>,
                      << >>, << >>)
           EXCEPT !.typeAliases = <<[name |-> <<"T">>, line |-> 30,
                                     text |-> <<"t","y","p","e"," ","T">>]>>]>>]

InitExit ==
    /\ \E dirs \in SUBSET {Cwd}, unnamed \in BOOLEAN : env = ExitEnv(dirs, unnamed)
    /\ InitState

NextExit ==
    \/ AnalyzeNoConfig \/ AnalyzeBegin \/ AnalyzeFile
    \/ FindFilter \/ FindList \/ FindRestore
    \/ CmdCallers \/ CmdType

SpecExit == InitExit /\ [][NextExit]_vars

\* the classes of src/m.ts, in the order declared: each has a method m
ClassOrders == {<< >>, <<"K">>, <<"K", "L">>, <<"L", "K">>}

MethodClass(n) ==
    IF n = "K"
    THEN ClassNode(<<"K">>, << >>, <<FuncNode(<<"m">>, TRUE, 20, 22, <<Ident("a")>>)>>,
                   << >>, << >>)
    ELSE ClassNode(<<"L">>, << >>,
                   <<FuncNode(<<"m">>, TRUE, 30, 33, <<Ident("b"), Ident("x")>>)>>,
                   << >>, << >>)

\* the bodies tried for the function a: up to two calls of b, of m and of x,
\* which nothing declares
QueryBodies == UNION {[1..k -> {Ident("b"), Ident("m"), Ident("x")}] : k \in 0..2}

\* src/m.ts declares the functions a and b and the classes; a function m is
\* declared nowhere, in src/m.ts after b, or in lib/n.ts
QueryEnv(classes, top, body) ==
    [cwd |-> Cwd,
     configDirs |-> {Cwd},
     sourceFiles |->
        <<SourceFile(SrcFile,
                     <<[FuncNode(<<"a">>, TRUE, 1, 5, body) EXCEPT !.exported = TRUE],
                       FuncNode(<<"b">>, TRUE, 7, 9, << >>)>>
                     \o (IF top = "src" THEN <<FuncNode(<<"m">>, TRUE, 11, 12, <<Ident("b")>>)>>
                         ELSE << >>),
                     << >>,
                     MapSeq(classes, LAMBDA n : MethodClass(n)))>>
        \o (IF top = "lib"
            THEN <<SourceFile(LibFile, <<FuncNode(<<"m">>, TRUE, 1, 2, <<Ident("b")>>)>>,
                              << >>, << >>)>>
            ELSE << >>)]

InitQuery ==
    /\ \E classes \in ClassOrders, top \in {"none", "src", "lib"}, body \in QueryBodies :
          env = QueryEnv(classes, top, body)
    /\ InitState

NextQuery ==
    \/ AnalyzeBegin \/ AnalyzeFile
    \/ CmdInfo \/ CmdDeps \/ CmdCallers \/ CmdRead \/ CmdGraph \/ CmdAI
    \/ FlowStart \/ FlowEnter \/ FlowCall \/ FlowReturn

SpecQuery == InitQuery /\ [][NextQuery]_vars

\* what a project without functions may hold: a variable bound to a number,
\* a type alias, a function in a file of node_modules
EmptyParts == SUBSET {"variable", "type", "vendor"}

\* a project with no source file, or one in which extraction finds nothing
EmptyEnv(files, parts) ==
    [cwd |-> Cwd,
     configDirs |-> {Cwd},
     sourceFiles |->
        (IF files
         THEN <<[SourceFile(SrcFile, << >>,
                            IF "variable" \in parts
                            THEN <<VarNode(<<"c">>, 1, 1, "other", << >>, << >>)>>
                            ELSE << >>,
                            << >>)
                 EXCEPT !.typeAliases =
                    IF "type" \in parts
                    THEN <<[name |-> <<"T">>, line |-> 3,
                            text |-> <<"t","y","p","e"," ","T">>]>>
                    ELSE << >>]>>
         ELSE << >>)
        \o (IF "vendor" \in parts
            THEN <<SourceFile(Cwd \o <<"/","n","o","d","e","_","m","o","d","u","l","e","s",
                                       "/","v",".","t","s">>,
                              <<FuncNode(<<"v">>, TRUE, 1, 3, << >>)>>, << >>, << >>)>>
            ELSE << >>)]

InitEmpty ==
    /\ \E files \in BOOLEAN, parts \in EmptyParts : env = EmptyEnv(files, parts)
    /\ InitState

NextEmpty ==
    \/ AnalyzeBegin \/ AnalyzeFile
    \/ CmdList \/ CmdTree \/ CmdStats \/ CmdAnalyze \/ CmdGraph \/ CmdAI

SpecEmpty == InitEmpty /\ [][NextEmpty]_vars

\* a declaration of the type T at a line, as an interface, alias or enum
TypeDecl(kind, line) == [name |-> <<"T">>, line |-> line, text |-> <<kind, " ", "T">>]

\* a source file with up to two interfaces, an alias and an enum named T,
\* declared from the line base on
TypesFile(path, base, interfaces, alias, enum) ==
    [SourceFile(path, << >>, << >>, << >>)
     EXCEPT !.interfaces = [i \in 1..interfaces |-> TypeDecl("interface", base + i)],
            !.typeAliases = IF alias THEN <<TypeDecl("type", base + 5)>> ELSE << >>,
            !.enums = IF enum THEN <<TypeDecl("enum", base + 7)>> ELSE << >>]

\* src/m.ts and lib/n.ts declare T in some of these ways; src/m.ts declares
\* the interface U as well
TypeRegistryEnv(i1, a1, e1, i2, a2, e2) ==
    [cwd |-> Cwd,
     configDirs |-> {Cwd},
     sourceFiles |->
        <<[TypesFile(SrcFile, 0, i1, a1, e1)
           EXCEPT !.interfaces = @ \o <<[name |-> <<"U">>, line |-> 9,
                                         text |-> <<"interface", " ", "U">>]>>],
          TypesFile(LibFile, 10, i2, a2, e2)>>]

InitTypeRegistry ==
    /\ \E i1 \in 0..2, i2 \in 0..2, a1 \in BOOLEAN, e1 \in BOOLEAN,
          a2 \in BOOLEAN, e2 \in BOOLEAN :
          env = TypeRegistryEnv(i1, a1, e1, i2, a2, e2)
    /\ InitState

NextTypeRegistry == AnalyzeBegin \/ AnalyzeFile \/ CmdType

SpecTypeRegistry == InitTypeRegistry /\ [][NextTypeRegistry]_vars

\* the diamond a -> b, a -> c, b -> d, c -> d, and the calls that may come with
\* it: back to the start, across the branches, and past them
DiamondNames == <<<<"a">>, <<"b">>, <<"c">>, <<"d">>>>
Diamond == <<<<1, Ident("b")>>, <<1, Ident("c")>>, <<2, Ident("d")>>, <<3, Ident("d")>>>>
DiamondExtras ==
    <<<<1, Ident("d")>>, <<2, Ident("c")>>, <<3, Ident("b")>>, <<4, Ident("a")>>,
      <<4, Ident("b")>>>>

InitDiamond ==
    /\ \E extras \in SUBSET (1..Len(DiamondExtras)) :
          env = GraphEnv(DiamondNames, 2,
                         Diamond \o SelectSeq(DiamondExtras,
                                      LAMBDA e : \E i \in extras : DiamondExtras[i] = e),
                         FALSE)
    /\ InitState

SpecDiamond == InitDiamond /\ [][NextFlow]_vars /\ WF_vars(NextFlow)

\* the places a source file of the project may be at, below the working
\* directory: in src, in a build or vendor directory, and in src or a
\* directory of its own under a name that has "dist" in it
SkipPaths ==
    <<<<"s","r","c","/","m",".","t","s">>,
      <<"d","i","s","t","/","m",".","t","s">>,
      <<"n","o","d","e","_","m","o","d","u","l","e","s","/","v","/","i",".","t","s">>,
      <<".","n","e","x","t","/","s",".","t","s">>,
      <<"s","r","c","/","d","i","s","t","a","n","c","e",".","t","s">>,
      <<"s","r","c","/","d","i","s","t",".","t","s">>,
      <<"r","e","d","i","s","t","/","m",".","t","s">>>>

\* the project of the files at the chosen places, each declaring one function
\* named after its place
SkipEnv(places) ==
    [cwd |-> Cwd,
     configDirs |-> {Cwd},
     sourceFiles |->
        MapSeq(SelectSeq([i \in 1..Len(SkipPaths) |-> i], LAMBDA i : i \in places),
               LAMBDA i : SourceFile(Resolve(Cwd, SkipPaths[i]),
                                     <<FuncNode(<<"f", Digits[i + 1]>>, TRUE, 1, 3, << >>)>>,
                                     << >>, << >>))]

InitSkip ==
    /\ \E places \in SUBSET (1..Len(SkipPaths)) : env = SkipEnv(places)
    /\ InitState

NextSkip == AnalyzeBegin \/ AnalyzeFile \/ CmdList

SpecSkip == InitSkip /\ [][NextSkip]_vars

\* the longest body of call expressions tried
MaxCalls == 3

ModulePath == <<".","/","m">>

\* the call expressions tried: g(), x.m(), x.y.m(), x[k](), import('./m'),
\* import("./m"), import() and (f || g)()
CallShapes ==
    <<CallIdent(<<"g">>),
      CallProp(<<"x">>, TRUE, <<"m">>),
      CallProp(<<"x",".","y">>, FALSE, <<"m">>),
      CallOther,
      CallImport(<<<<"'">> \o ModulePath \o <<"'">>>>),
      CallImport(<<<<"\"">> \o ModulePath \o <<"\"">>>>),
      CallImport(<< >>),
      [CallOther EXCEPT !.name = <<"g">>]>>

\* src/m.ts declares one function f whose body holds the given calls
CallsEnv(shapes) ==
    [cwd |-> Cwd,
     configDirs |-> {Cwd},
     sourceFiles |->
        <<SourceFile(SrcFile,
                     <<FuncNode(<<"f">>, TRUE, 1, 9,
                                [i \in 1..Len(shapes) |-> CallShapes[shapes[i]]])>>,
                     << >>, << >>)>>]

InitCalls ==
    /\ \E k \in 0..MaxCalls : \E shapes \in [1..k -> 1..Len(CallShapes)] :
          env = CallsEnv(shapes)
    /\ InitState

NextCalls == AnalyzeBegin \/ AnalyzeFile \/ CmdList

SpecCalls == InitCalls /\ [][NextCalls]_vars

\* n characters of a type name
Padding(n) == [i \in 1..n |-> "A"]

ImportQualifier == ImportOpen \o <<"\"", "p", "\"", ")", ".">>

\* the type texts tried: n characters alone, after one or two import
\* qualifiers, as the argument of React.FC, and before React.ReactNode or
\* React.ReactElement
TypeShapes == {"plain", "import", "imports", "fc", "node", "element"}

TypeText(shape, n) ==
    IF shape = "import" THEN ImportQualifier \o Padding(n)
    ELSE IF shape = "imports"
         THEN ImportQualifier \o <<"B", "|">> \o ImportQualifier \o Padding(n)
    ELSE IF shape = "fc" THEN ReactFC \o Padding(n) \o <<">">>
    ELSE IF shape = "node" THEN Padding(n) \o <<"|">> \o ReactDot \o ReactNode
    ELSE IF shape = "element" THEN Padding(n) \o <<"|">> \o ReactDot \o ReactElement
    ELSE Padding(n)

\* src/m.ts declares `function f(): <type text>`
TypesEnv(text) ==
    [cwd |-> Cwd,
     configDirs |-> {Cwd},
     sourceFiles |->
        <<SourceFile(SrcFile,
                     <<[FuncNode(<<"f">>, TRUE, 1, 3, << >>) EXCEPT !.returnType = text]>>,
                     << >>, << >>)>>]

InitTypes ==
    /\ \E shape \in TypeShapes, n \in 0..MaxTypeLen : env = TypesEnv(TypeText(shape, n))
    /\ InitState

NextTypes == AnalyzeBegin \/ AnalyzeFile \/ CmdInfo

SpecTypes == InitTypes /\ [][NextTypes]_vars

Anonymous == <<"a","n","o","n","y","m","o","u","s">>
Value == <<"v","a","l","u","e">>

\* the members class K may have: a constructor, a getter and a setter of the
\* property value, a method m
Members == SUBSET {"constructor", "getter", "setter", "method"}

\* class K of src/m.ts with the given members, declared from line 50 on
ClassOf(members) ==
    LET Member(kind, node) == IF kind \in members THEN <<node>> ELSE << >>
    IN  ClassNode(<<"K">>,
                  Member("constructor", FuncNode(<< >>, FALSE, 51, 53, << >>)),
                  Member("method", FuncNode(<<"m">>, TRUE, 55, 57, <<Ident("f")>>)),
                  Member("getter", FuncNode(Value, TRUE, 60, 62, << >>)),
                  Member("setter", FuncNode(Value, TRUE, 64, 66, << >>)))

\* the bodies tried for the function f: up to two calls of x and y
Bodies == UNION {[1..k -> {Ident("x"), Ident("y")}] : k \in 0..2}

\* src/m.ts declares `function f` spanning span + 1 lines, with or without
\* `export default function () {}` (a declaration whose getName() is
\* undefined) and class K
RecordsEnv(span, body, unnamed, members) ==
    [cwd |-> Cwd,
     configDirs |-> {Cwd},
     sourceFiles |->
        <<SourceFile(SrcFile,
                     <<FuncNode(<<"f">>, TRUE, 1, 1 + span, body)>>
                     \o (IF unnamed THEN <<FuncNode(Undefined, TRUE, 30, 32, << >>)>>
                         ELSE << >>),
                     << >>,
                     IF members = {} THEN << >> ELSE <<ClassOf(members)>>)>>]

InitRecords ==
    /\ \E span \in 0..MaxSpan, body \in Bodies, unnamed \in BOOLEAN, members \in Members :
          env = RecordsEnv(span, body, unnamed, members)
    /\ InitState

NextRecords == AnalyzeBegin \/ AnalyzeFile \/ CmdList

SpecRecords == InitRecords /\ [][NextRecords]_vars

(***************************************************************************)
(* Properties.                                                             *)
(***************************************************************************)
\* the lines of a kind among the output
LinesOf(kind) == SelectSeq(out, LAMBDA l : l.kind = kind)

Built == pc \notin {"start", "files", "exit"}

Ran(cmd) == pc = "done" /\ argv.cmd = cmd

\* the records whose calls contain the name n
CallingRecords(n) ==
    {functions[i].id : i \in {j \in 1..Len(functions) : n \in Range(functions[j].calls)}}

\* C1: for every name, defined in the project or not, findCallers gives
\* exactly the records whose calls contain the name, each once; and callers
\* prints one line for each of them
C1_CallersExact ==
    /\ Built =>
        \A n \in QueryNames(functions) :
            LET callers == FindCallers(functions, n) IN
            /\ {callers[i].id : i \in 1..Len(callers)} = CallingRecords(n)
            /\ Len(callers) = Cardinality(CallingRecords(n))
    /\ (Ran("callers") /\ FindFunction(functions, argv.arg) # 0) =>
        LET func == functions[FindFunction(functions, argv.arg)]
            listed == LinesOf("caller")
        IN  /\ {listed[i].n : i \in 1..Len(listed)} = CallingRecords(func.name)
            /\ Len(listed) = Cardinality(CallingRecords(func.name))
            /\ (LinesOf("none") # << >>) <=> (CallingRecords(func.name) = {})

\* C1 witness: a calls b and c calls b, and callers b has listed a and c
C1_Witness ==
    /\ Ran("callers")
    /\ argv.arg = <<"b">>
    /\ LET listed == LinesOf("caller") IN
       /\ Len(listed) = 2
       /\ {listed[i].name : i \in 1..Len(listed)} = {<<"a">>, <<"c">>}

\* C2: the project calls of a record are its calls that name a function of
\* the registry, in order; deps lists exactly those
C2_ProjectCallsInternal ==
    /\ Built =>
        \A i \in 1..Len(functions) :
            LET func == functions[i]
                projectCalls == ProjectCalls(functions, func)
            IN  /\ Range(projectCalls) = Range(func.calls) \cap FunctionNames(functions)
                /\ Len(projectCalls) = Cardinality(Range(projectCalls))
    /\ (Ran("deps") /\ FindFunction(functions, argv.arg) # 0) =>
        LET func == functions[FindFunction(functions, argv.arg)]
            listed == LinesOf("call")
        IN  /\ {listed[i].name : i \in 1..Len(listed)}
                = Range(func.calls) \cap FunctionNames(functions)
            /\ Len(listed) = Cardinality(Range(func.calls) \cap FunctionNames(functions))

\* C2 witness: deps a where a calls the project function b and the external
\* x has listed one call
C2_Witness ==
    /\ Ran("deps")
    /\ argv.arg = <<"a">>
    /\ functions[1].calls = <<<<"b">>, <<"x">>>>
    /\ Len(LinesOf("call")) = 1

\* the records of the registry that have no project-internal edge: they call
\* no other registered function and no other registered function calls them
IsolatedRecords ==
    {i \in 1..Len(functions) :
        LET name == functions[i].name IN
        /\ Range(functions[i].calls) \cap (FunctionNames(functions) \ {name}) = {}
        /\ \A j \in 1..Len(functions) :
              functions[j].name # name => name \notin Range(functions[j].calls)}

\* the isolated-function count analyze has printed, 0 when it printed none
ReportedIsolated ==
    IF LinesOf("isolated") = << >> THEN 0 ELSE LinesOf("isolated")[1].n

\* C3: the isolated-function count analyze reports is the number of
\* registered functions without a project-internal edge
C3_IsolatedCount ==
    Ran("analyze") => ReportedIsolated = Cardinality(IsolatedRecords)

\* the project-internal calls as pairs <<calling name, called name>>
CallLinks ==
    UNION {{<<functions[i].name, m>> :
                m \in Range(functions[i].calls) \cap FunctionNames(functions)}
           : i \in 1..Len(functions)}

RECURSIVE ComponentOf(_, _)
\* the names linked to the names of S by a chain of calls in either direction
ComponentOf(S, links) ==
    LET T == S \cup {l[2] : l \in {e \in links : e[1] \in S}}
               \cup {l[1] : l \in {e \in links : e[2] \in S}}
    IN  IF T = S THEN S ELSE ComponentOf(T, links)

\* the connected components of two names or more
LargeComponents ==
    LET links == CallLinks IN
    {C \in {ComponentOf({n}, links) : n \in FunctionNames(functions)} :
        Cardinality(C) >= 2}

\* C4: the groups analyze reports are the connected components of two names
\* or more of the undirected call graph over function names, each once and
\* without a repeated name, in non-increasing order of size
C4_GroupsAreComponents ==
    Ran("analyze") =>
        LET groups == LinesOf("group")
            large  == LargeComponents
        IN
        /\ {Range(groups[i].name) : i \in 1..Len(groups)} = large
        /\ Len(groups) = Cardinality(large)
        /\ \A i \in 1..Len(groups) :
              /\ Len(groups[i].name) = Cardinality(Range(groups[i].name))
              /\ groups[i].n = Len(groups[i].name)
              /\ groups[i].n >= 2
        /\ \A i \in 1..(Len(groups) - 1) : groups[i].n >= groups[i + 1].n
        /\ LinesOf("components")[1].n = Cardinality(large)

\* C4 witness: a group of two found first and a group of three found later
\* are reported, the group of three first
C4_Witness ==
    /\ Ran("analyze")
    /\ LET groups == LinesOf("group") IN
       /\ Len(groups) = 2
       /\ groups[1].n = 3
       /\ groups[2].n = 2
       /\ <<"a">> \in Range(groups[2].name)

RECURSIVE ReachWithin(_, _, _)
\* the names a path of at most d calls leads to from a name of S
ReachWithin(S, links, d) ==
    IF d <= 0 THEN S
    ELSE ReachWithin(S \cup {l[2] : l \in {e \in links : e[1] \in S}}, links, d - 1)

\* flow has started from a function it found; its --depth is a number
FlowTraced == argv.cmd = "flow" /\ FindFunction(functions, argv.arg) # 0

FlowLimit == FlowDepth(argv.depth)

\* C5: flow with depth D prints a node line for every function that a path of
\* at most D project-internal calls leads to from the start function, and for
\* no other; no node line is deeper than D, and no callee is printed deeper
\* than D + 1, so that a function D + 1 calls away is never expanded
C5_FlowWithinDepth ==
    (FlowTraced /\ ~FlowLimit.nan) =>
        LET D     == FlowLimit.n
            nodes == LinesOf("node")
            edges == LinesOf("edge")
            start == functions[FindFunction(functions, argv.arg)].name
        IN  /\ \A i \in 1..Len(nodes) :
                  /\ nodes[i].n <= D
                  /\ nodes[i].name \in ReachWithin({start}, CallLinks, nodes[i].n)
            /\ \A i \in 1..Len(edges) : edges[i].n <= D + 1
            /\ pc = "done" =>
                  {nodes[i].name : i \in 1..Len(nodes)}
                      = ReachWithin({start}, CallLinks, D)

\* C5 witness: flow a with depth 2 on the chain a -> b -> c -> d has printed
\* the nodes a, b and c, and d as the callee of c only
C5_Witness ==
    /\ Ran("flow")
    /\ argv.depth = <<"2">>
    /\ CallLinks = {<<<<"a">>, <<"b">>>>, <<<<"b">>, <<"c">>>>, <<<<"c">>, <<"d">>>>}
    /\ LET nodes == LinesOf("node") IN
       /\ Len(nodes) = 3
       /\ {nodes[i].name : i \in 1..Len(nodes)} = {<<"a">>, <<"b">>, <<"c">>}
    /\ \E i \in 1..Len(out) : out[i] = Line("edge", <<"d">>, 3)

\* the names of the activations traceFlow was called from: the current path
PathNames == {functions[stack[i].func].name : i \in 1..(Len(stack) - 1)}

\* traceFlow is called for a function whose name is on the current path
ReachedAgain ==
    /\ pc = "flow"
    /\ ~Top.entered
    /\ functions[Top.func].name \in PathNames

\* C6: flow ends for every project, start function and --depth value, also
\* one that is not a number; and a call of traceFlow for a name of the current
\* path prints the name as circular and returns without expanding it
C6_FlowTerminates ==
    /\ <>(pc = "done")
    /\ [][ReachedAgain =>
            /\ out' = Append(out, Line("circular", functions[Top.func].name, Top.depth))
            /\ stack' = Pop]_vars

\* C6 witness: flow a with a depth that is not a number on a -> b -> a has
\* ended, the second a printed as circular and a and b once as nodes
C6_Witness ==
    /\ Ran("flow")
    /\ argv.depth = <<"x">>
    /\ CallLinks = {<<<<"a">>, <<"b">>>>, <<<<"b">>, <<"a">>>>}
    /\ LinesOf("circular") = <<Line("circular", <<"a">>, 2)>>
    /\ Len(LinesOf("node")) = 2

\* find has printed its listing for the pattern
Found == argv.cmd = "find" /\ pc \in {"find.restore", "done"}

\* the names find has listed, and the names of all records
ListedNames == LET l == LinesOf("function") IN {l[i].name : i \in 1..Len(l)}

\* sub occurs in s from position i + 1 on, letters compared without case
OccursAt(sub, s, i) ==
    /\ i + Len(sub) <= Len(s)
    /\ \A k \in 1..Len(sub) :
          ToLowerCase(<<sub[k]>>) = ToLowerCase(<<s[i + k]>>)

ContainsIgnoringCase(sub, s) == \E i \in 0..Len(s) : OccursAt(sub, s, i)

\* what a regular expression of letters, "^" and groups matches without case:
\* nothing when a "^" follows a letter, names beginning with the letters when
\* it begins with "^", names containing the letters otherwise
RegExpExpected(pattern, name) ==
    LET atoms   == SelectSeq(pattern, LAMBDA c : c \notin {"(", ")"})
        letters == SelectSeq(atoms, LAMBDA c : c # "^")
        late    == \E i, j \in 1..Len(atoms) :
                      i < j /\ atoms[i] # "^" /\ atoms[j] = "^"
    IN  /\ ~late
        /\ IF atoms # << >> /\ atoms[1] = "^" THEN OccursAt(letters, name, 0)
           ELSE ContainsIgnoringCase(letters, name)

\* the records of the copy find keeps whose name passes a test
Expected(Test(_)) ==
    {i \in 1..Len(originalFunctions) : Test(originalFunctions[i].name)}

\* the listing is the given records of the copy, each once, and their count
ListsExactly(S) ==
    LET l == LinesOf("function") IN
    /\ {l[i].n : i \in 1..Len(l)} = {originalFunctions[i].id : i \in S}
    /\ Len(l) = Cardinality(S)
    /\ LinesOf("total") = <<Line("total", << >>, Cardinality(S))>>

Caret == <<"^", "u", "s", "e">>

\* C7 as stated: find ^use lists useAuth and useForm and does not list Usekey
C7_CaseSensitive ==
    (Found /\ argv.arg = Caret) =>
        /\ {UseAuth, UseForm} \subseteq ListedNames
        /\ Usekey \notin ListedNames

\* C7 amended: a pattern that compiles is matched against the function names
\* as a regular expression that ignores case, and no warning is printed;
\* find ^use lists useAuth, useForm and Usekey and no other name
C7_RegExpIgnoringCase ==
    (Found /\ RegExpCompiles(argv.arg)) =>
        /\ ListsExactly(Expected(LAMBDA name : RegExpExpected(argv.arg, name)))
        /\ LinesOf("warning") = << >>
        /\ argv.arg = Caret => ListedNames = {UseAuth, UseForm, Usekey}

\* C7 witness: find ^use has listed Usekey next to useAuth and useForm while
\* the project also holds reuse
C7_Witness ==
    /\ Ran("find")
    /\ argv.arg = Caret
    /\ ListedNames = {UseAuth, UseForm, Usekey}
    /\ \E i \in 1..Len(functions) : functions[i].name = Reuse

C9_RegistryUnchanged ==
    Built => functions = AnalyzeFiles(env, Len(env.sourceFiles)).functions

\* the source files analyze does not skip
AnalyzedFiles ==
    {i \in 1..Len(env.sourceFiles) :
        LET path == env.sourceFiles[i].path IN
        \A part \in {<<"n","o","d","e","_","m","o","d","u","l","e","s">>,
                      <<".","n","e","x","t">>, <<"d","i","s","t">>} :
            \A k \in 0..(Len(path) - Len(part)) :
                SubSeq(path, k + 1, k + Len(part)) # part}

\* C10: after the build, for every variable bound to an object literal and
\* every property of it whose value is an arrow function or a function
\* expression, the registry holds a record named after the property whose
\* enclosing scope is the name of the variable
C10_NestedDiscovered ==
    Built =>
        \A i \in AnalyzedFiles :
            LET variables == env.sourceFiles[i].variables IN
            \A v \in 1..Len(variables) :
                variables[v].init.kind = "object" =>
                    \A p \in 1..Len(variables[v].init.props) :
                        variables[v].init.props[p].kind \in {"arrow", "funcexpr"} =>
                            \E r \in 1..Len(functions) :
                                /\ functions[r].name = variables[v].init.props[p].name
                                /\ functions[r].className = variables[v].name

\* the constructs extraction finds in a source file: functions, variables
\* bound to an arrow function or function expression, and class members
Constructs(sourceFile) ==
    Len(sourceFile.functions)
    + Cardinality({v \in 1..Len(sourceFile.variables) :
                      sourceFile.variables[v].init.kind \in {"arrow", "funcexpr"}})
    + Cardinality({<<c, kind, m>> \in
          (1..Len(sourceFile.classes))
              \X {"constructors", "methods", "getters", "setters"} \X (1..4) :
          m <= Len(sourceFile.classes[c][kind])})

\* C11: every record of the registry has an identifier as its name, never the
\* placeholder anonymous and never undefined
C11_RealNames ==
    \A r \in 1..Len(functions) :
        /\ functions[r].name # Anonymous
        /\ functions[r].name # Undefined

\* C12: after a build no two constructs have the same id: the registry holds
\* as many records as extraction found constructs in the analyzed files
C12_UniqueIds ==
    Built =>
        LET found == {i \in AnalyzedFiles : TRUE} IN
        /\ \A r, q \in 1..Len(functions) : functions[r].id = functions[q].id => r = q
        /\ Len(functions) = Cardinality(
              UNION {{<<i, n>> : n \in 1..Constructs(env.sourceFiles[i])} : i \in found})

\* C13 as stated: every record of a built registry has complexity >= 1
C13_AtLeastOne ==
    Built => \A r \in 1..Len(functions) : functions[r].complexity >= 1

\* C13 amended: the complexity of a record is the number of distinct names it
\* calls plus one for every ten whole lines it spans beyond its first, and so
\* is at least 0; it is 0 for a function of fewer than ten lines without calls
C13_CallsPlusTenths ==
    Built =>
        \A r \in 1..Len(functions) :
            LET f     == functions[r]
                spans == f.endLine - f.line
                tens  == CHOOSE t \in 0..spans : 10 * t <= spans /\ spans < 10 * (t + 1)
            IN  /\ f.complexity = Cardinality(Range(f.calls)) + tens
                /\ f.complexity >= 0
                /\ (spans < 9 /\ f.calls = << >>) => f.complexity = 0

\* C13 witness: a function of three lines without calls has complexity 0 and
\* a method of three lines with one call has complexity 1
C13_Witness ==
    /\ pc = "query"
    /\ \E r \in 1..Len(functions) :
          /\ functions[r].name = <<"f">>
          /\ functions[r].size = 3
          /\ functions[r].calls = << >>
          /\ functions[r].complexity = 0
    /\ \E r \in 1..Len(functions) :
          functions[r].name = <<"m">> /\ functions[r].complexity = 1

\* the declaration a record was extracted from: a node of the source file
\* with the name, kind and first line of the record
NodesOf(sourceFile) ==
    {sourceFile.functions[i] : i \in 1..Len(sourceFile.functions)}
    \cup {sourceFile.variables[i] : i \in 1..Len(sourceFile.variables)}
    \cup UNION {{sourceFile.classes[c][kind][m] :
                    m \in 1..Len(sourceFile.classes[c][kind])} :
                <<c, kind>> \in (1..Len(sourceFile.classes))
                    \X {"constructors", "methods", "getters", "setters"}}

\* C14: every record of a built registry ends on or after the line it starts
\* on, spans the lines of its declaration, and its size is the number of lines
\* from the first to the last
C14_SizeOfSpan ==
    Built =>
        \A r \in 1..Len(functions) :
            LET f == functions[r] IN
            /\ f.endLine >= f.line
            /\ f.size = f.endLine - f.line + 1
            /\ f.size >= 1
            /\ \E i \in AnalyzedFiles : \E node \in NodesOf(env.sourceFiles[i]) :
                  node.startLine = f.line /\ node.endLine = f.endLine

\* C14 witness: a function declared on one line has size 1 and a function
\* spanning eleven lines has size 11
C14_Witness ==
    /\ pc = "done"
    /\ \E r \in 1..Len(functions) :
          /\ functions[r].name = <<"f">>
          /\ functions[r].line = functions[r].endLine
          /\ functions[r].size = 1
    /\ \E r \in 1..Len(functions) : functions[r].size = 3

\* the type text the declaration of a record was given
GivenType(r) ==
    LET file == CHOOSE i \in AnalyzedFiles :
                    \E node \in NodesOf(env.sourceFiles[i]) :
                        node.name = functions[r].name /\ node.startLine = functions[r].line
        node == CHOOSE node \in NodesOf(env.sourceFiles[file]) :
                    node.name = functions[r].name /\ node.startLine = functions[r].line
    IN  node.returnType

\* C15 as stated: the cleaned form of every type text longer than 100
\* characters is exactly 100 characters long, and no cleaned form is longer
C15_LongGivesHundred ==
    Built =>
        \A r \in 1..Len(functions) :
            /\ Len(GivenType(r)) > 100 => Len(functions[r].returnType) = 100
            /\ Len(functions[r].returnType) <= 100

\* the type text has the characters of t from position i on
HasAt(text, i, t) ==
    /\ i + Len(t) - 1 <= Len(text)
    /\ \A k \in 1..Len(t) : text[i + k - 1] = t[k]

\* C15 amended: no cleaned type text is longer than 100 characters; a cleaned
\* text of 100 characters that ends in the ellipsis, or any cleaned text of a
\* given text without import qualifier and React prefix that is longer than
\* 100 characters, is the first 97 characters followed by "..."; a given text
\* without qualifier or prefix of at most 100 characters is kept as it is
C15_CleanedOverHundred ==
    Built =>
        \A r \in 1..Len(functions) :
            LET given   == GivenType(r)
                cleaned == functions[r].returnType
                bare    == \A i \in 1..Len(given) :
                              ~HasAt(given, i, <<"i","m","p","o","r","t","(">>)
                              /\ ~HasAt(given, i, <<"R","e","a","c","t",".">>)
            IN  /\ Len(cleaned) <= 100
                /\ Len(cleaned) <= Len(given)
                /\ (bare /\ Len(given) > 100) =>
                      /\ Len(cleaned) = 100
                      /\ \A k \in 1..97 : cleaned[k] = given[k]
                      /\ \A k \in 98..100 : cleaned[k] = "."
                /\ (bare /\ Len(given) <= 100) => cleaned = given
                /\ (~bare /\ Len(given) > 100 /\ Len(cleaned) < 100) =>
                      \A k \in 1..Len(cleaned) : cleaned[k] # "."

\* C15 witness: a text of 104 characters has been cut to 97 characters and
\* the ellipsis
C15_Witness ==
    /\ pc = "done"
    /\ Len(GivenType(1)) = 104
    /\ Len(functions[1].returnType) = 100
    /\ functions[1].returnType[97] = "A"
    /\ functions[1].returnType[98] = "."
    /\ LinesOf("returns") = <<Line("returns", functions[1].returnType, 0)>>

\* the working directory and the directories above it, the root included
Chain(cwd) ==
    {<<"/">>} \cup {SubSeq(cwd, 1, k) : k \in {j \in 2..Len(cwd) : j = Len(cwd) \/ cwd[j + 1] = "/"}}

\* the longest directory of a non-empty set of directories of one chain
Nearest(dirs) == CHOOSE d \in dirs : \A other \in dirs : Len(other) <= Len(d)

\* C16: once the configuration has been looked for, the build goes on with
\* the tsconfig.json of the nearest directory of the chain from the working
\* directory up to and including the root that holds one, and "not found" is
\* reported exactly when no directory of that chain holds one
C16_NearestOnChain ==
    LET holding == Chain(env.cwd) \cap env.configDirs IN
    pc # "start" =>
        IF holding = {}
        THEN pc = "exit" /\ LinesOf("error") # << >> /\ FindTsConfig(env) = Undefined
        ELSE /\ pc # "exit"
             /\ LinesOf("error") = << >>
             /\ FindTsConfig(env)
                    = Resolve(Nearest(holding),
                              <<"t","s","c","o","n","f","i","g",".","j","s","o","n">>)

\* C17: a command that has ended has a non-zero exit status exactly when no
\* project configuration was found; then the error was reported once and no
\* registry was cleared, built or queried; a query for a name the registry
\* lacks ends with status zero
C17_NonZeroOnlyWithoutConfig ==
    pc \in {"exit", "done"} =>
        /\ exitCode # 0 <=> Chain(env.cwd) \cap env.configDirs = {}
        /\ exitCode # 0 =>
              /\ out = <<Line("error", << >>, 1)>>
              /\ argv = NoArgv
              /\ functions = << >> /\ modules = << >> /\ typeDefinitions = << >>
              /\ fileIdx = 0
        /\ LinesOf("notfound") # << >> => exitCode = 0

\* the records a name stands for: those it names and those whose id ends with
\* ":" and the name
Answers(q) ==
    {i \in 1..Len(functions) :
        \/ functions[i].name = q
        \/ /\ Len(functions[i].id) > Len(q)
           /\ functions[i].id[Len(functions[i].id) - Len(q)] = ":"
           /\ \A k \in 1..Len(q) : functions[i].id[Len(functions[i].id) - Len(q) + k] = q[k]}

\* the first of them in discovery order, 0 when there is none
FirstAnswer(q) ==
    IF Answers(q) = {} THEN 0
    ELSE CHOOSE i \in Answers(q) : \A j \in Answers(q) : i <= j

\* the positions of the given names that stand for a record, increasing
Present(names) == {i \in 1..Len(names) : Answers(names[i]) # {}}

\* C18: read prints "not found" for each given name without a record, in the
\* order given, and one read command with the file path, the first and the
\* last line of the record of each other name, in the order given; when no
\* name has a record it prints no read command, and it ends with status zero
C18_ReadEachPresentName ==
    Ran("read") =>
        LET names == argv.arg
            seds  == LinesOf("sed")
            lost  == LinesOf("notfound")
        IN  /\ exitCode = 0
            /\ Len(seds) = Cardinality(Present(names))
            /\ Len(lost) = Len(names) - Len(seds)
            /\ \A i \in 1..Len(names) :
                  LET before == Cardinality({j \in Present(names) : j < i}) IN
                  IF i \in Present(names)
                  THEN LET func == functions[FirstAnswer(names[i])]
                           sed  == seds[before + 1]
                       IN  /\ sed.name = func.filePath
                           /\ sed.n = func.line
                           /\ sed.endLine = func.endLine
                  ELSE lost[i - before].name = names[i]
            /\ Present(names) = {} => out = lost

\* C18 witness: read was given a name without a record and then the name of
\* a method, and printed the "not found" and the method's read command
C18_Witness ==
    /\ Ran("read")
    /\ argv.arg = <<<<"z">>, <<"L", ".", "m">>>>
    /\ LinesOf("notfound") = <<Line("notfound", <<"z">>, 0)>>
    /\ Len(LinesOf("sed")) = 1
    /\ LinesOf("sed")[1].n = 30 /\ LinesOf("sed")[1].endLine = 33

\* the commands that resolve one function from the name in argv.arg
ResolvesName ==
    \/ argv.cmd \in {"info", "deps", "callers", "flow"}
    \/ argv.cmd = "graph" /\ argv.arg # Undefined
    \/ argv.cmd = "ai" /\ argv.module = Undefined /\ argv.arg # Undefined

\* what a command that found func prints of it
ShowsRecord(func) ==
    IF argv.cmd = "info"
    THEN /\ LinesOf("header") = <<Line("header", func.name, 0)>>
         /\ Len(LinesOf("location")) = 1
         /\ LinesOf("location")[1].name = func.filePath
         /\ LinesOf("location")[1].n = func.line
         /\ LinesOf("location")[1].endLine = func.endLine
    ELSE IF argv.cmd = "deps"
    THEN LinesOf("header") = <<Line("header", func.name, func.id)>>
    ELSE IF argv.cmd = "callers"
    THEN LinesOf("header") = <<Line("header", func.name, 0)>>
    ELSE IF argv.cmd = "flow"
    THEN /\ LinesOf("header") = <<Line("header", func.name, 0)>>
         /\ out[2] = Line("node", func.name, 0)
    ELSE IF argv.cmd = "ai"
    THEN /\ LinesOf("header") = <<Line("header", func.name, 0)>>
         /\ LinesOf("location") = <<Line("location", func.filePath, func.line)>>
    ELSE IF argv.format = "mermaid"
    THEN out[2] = Line("node", func.name, 0)
    ELSE IF argv.format = "dot"
    THEN \A i \in 1..Len(out) : out[i].kind = "edge" => out[i].from = func.name
    ELSE out[1] = Line("node", func.name, func.line)

\* C19: info, deps, callers, flow, read, graph and ai --function answer for
\* the first record in discovery order whose name is the name asked for or
\* whose id ends with ":" and that name, and print "not found" exactly when
\* there is no such record; a qualified name Class.method is answered with
\* the method of that class
C19_FirstMatchingRecord ==
    /\ (pc = "flow" /\ argv.cmd = "flow") => stack[1].func = FirstAnswer(argv.arg)
    /\ (pc = "done" /\ ResolvesName) =>
          IF FirstAnswer(argv.arg) = 0
          THEN /\ Len(LinesOf("notfound")) = 1
               /\ \A i \in 1..Len(out) : out[i].kind \in {"notfound", "open", "close"}
          ELSE /\ LinesOf("notfound") = << >>
               /\ ShowsRecord(functions[FirstAnswer(argv.arg)])
    /\ (Ran("read") /\ Len(argv.arg) = 1) =>
          IF FirstAnswer(argv.arg[1]) = 0
          THEN out = NotFound(argv.arg[1])
          ELSE /\ LinesOf("notfound") = << >>
               /\ Len(LinesOf("sed")) = 1
               /\ LinesOf("sed")[1].name = functions[FirstAnswer(argv.arg[1])].filePath
               /\ LinesOf("sed")[1].n = functions[FirstAnswer(argv.arg[1])].line
    /\ Built =>
          \A i \in 1..Len(functions) :
              functions[i].className # Undefined =>
                  LET found == FirstAnswer(functions[i].className \o <<".">>
                                           \o functions[i].name)
                  IN  /\ found # 0
                      /\ functions[found].className = functions[i].className
                      /\ functions[found].name = functions[i].name

\* C19 witness: with the classes K and L declared in this order, info was
\* asked for L.m and printed the method of L, and not the first m
C19_Witness ==
    /\ Ran("info")
    /\ argv.arg = <<"L", ".", "m">>
    /\ Len(functions) >= 4
    /\ FirstAnswer(<<"m">>) < FirstAnswer(<<"L", ".", "m">>)
    /\ LinesOf("location")[1].n = 30

\* the calls of a record that are names of records of the registry
InternalCalls(func) ==
    SelectSeq(func.calls,
              LAMBDA call : call \in {functions[j].name : j \in 1..Len(functions)})

\* the called names of the lines of a kind
CalledNames(kind) == MapSeq(LinesOf(kind), LAMBDA l : l.name)

\* C20: the outgoing edges that deps lists, that flow traverses and that
\* graph renders as text, mermaid and dot are exactly the calls of the record
\* to names of records of the registry, in the order of the calls; a called
\* name no record has is never listed
C20_EdgesAreInternalCalls ==
    /\ (Ran("deps") /\ FirstAnswer(argv.arg) # 0) =>
          CalledNames("call") = InternalCalls(functions[FirstAnswer(argv.arg)])
    /\ Ran("graph") =>
          CalledNames("edge") =
              Flatten(MapSeq(IF argv.arg = Undefined THEN functions
                             ELSE IF FirstAnswer(argv.arg) = 0 THEN << >>
                             ELSE <<functions[FirstAnswer(argv.arg)]>>,
                             LAMBDA func : InternalCalls(func)))
    /\ argv.cmd = "flow" =>
          /\ \A i \in 1..Len(stack) :
                stack[i].entered => stack[i].calls = InternalCalls(functions[stack[i].func])
          /\ \A i \in 1..Len(out) :
                out[i].kind = "edge" =>
                    out[i].name \in {functions[j].name : j \in 1..Len(functions)}
          /\ (pc = "done" /\ FirstAnswer(argv.arg) # 0) =>
                MapSeq(SelectSeq(out, LAMBDA l : l.kind = "edge" /\ l.n = 1),
                       LAMBDA l : l.name)
                    = InternalCalls(functions[FirstAnswer(argv.arg)])

\* C20 witness: a calls x, which no record is named, and b, and the dot
\* rendering of the graph of a has b as the only edge of a
C20_Witness ==
    /\ Ran("graph")
    /\ argv.format = "dot"
    /\ argv.arg = <<"a">>
    /\ functions[1].calls = <<<<"x">>, <<"b">>>>
    /\ LinesOf("edge") = <<Edge(<<"a">>, <<"b">>, 0)>>

\* the name extraction gives a declaration
GivenName(node) == IF node.hasGetName THEN node.name ELSE Anonymous

\* the path of the i-th source file as seen from the working directory
PathFromCwd(i) ==
    SubSeq(env.sourceFiles[i].path, Len(env.cwd) + 2, Len(env.sourceFiles[i].path))

\* the ids of the declarations of the i-th source file: the path, ":", the
\* name of the enclosing class and "." for a member of a class, and the name
IdsOfFile(i) ==
    LET sourceFile == env.sourceFiles[i]
        MembersOf(class) == Range(class.constructors) \cup Range(class.methods)
                          \cup Range(class.getters) \cup Range(class.setters)
    IN  {PathFromCwd(i) \o <<":">> \o GivenName(node) :
            node \in Range(sourceFile.functions)
                     \cup {v \in Range(sourceFile.variables) :
                              v.init.kind \in {"arrow", "funcexpr"}}}
        \cup UNION {{PathFromCwd(i) \o <<":">> \o class.name \o <<".">> \o GivenName(node) :
                        node \in MembersOf(class)} : class \in Range(sourceFile.classes)}

\* the ids of the registry
RegistryIds == {functions[r].id : r \in 1..Len(functions)}

\* C21: the ids a build gives depend on the source files and the working
\* directory alone, each id being made of file path, enclosing class and
\* name: the stores are empty when the first file is about to be extracted,
\* hold the ids of the files extracted so far and no other while the build
\* goes on, and the ids of all analyzed files once it is over
C21_IdsOfTheSources ==
    /\ (pc = "files" /\ fileIdx = 1) =>
          functions = << >> /\ modules = << >> /\ typeDefinitions = << >>
    /\ pc = "files" =>
          RegistryIds = UNION {IdsOfFile(i) : i \in {j \in AnalyzedFiles : j < fileIdx}}
    /\ Built => RegistryIds = UNION {IdsOfFile(i) : i \in AnalyzedFiles}

\* C21 witness: a build is over whose registry holds the id of a function and
\* the id of a method, made of the path, the class and the names
C21_Witness ==
    /\ Built
    /\ <<"s","r","c","/","m",".","t","s",":","f">> \in RegistryIds
    /\ <<"s","r","c","/","m",".","t","s",":","K",".","m">> \in RegistryIds

\* C22: on a project without functions list, tree, stats, analyze, graph
\* without a function and ai end with status zero and print neither an
\* error nor a "not found"
C22_EmptyIsNoError ==
    (/\ pc \in {"done", "exit"}
     /\ functions = << >>
     /\ \/ argv.cmd \in {"list", "tree", "stats", "analyze"}
        \/ argv.cmd \in {"graph", "ai"} /\ argv.arg = Undefined) =>
        /\ exitCode = 0
        /\ \A i \in 1..Len(out) : out[i].kind \notin {"notfound", "error", "uncaught"}

\* the declarations of types of the analyzed files, each with the place it is
\* met at: the file, then interfaces before aliases before enums, then the
\* position among the declarations of its kind
TypeDeclarations ==
    LET Of(i, k, decls) ==
            {[at |-> <<i, k, j>>, decl |-> decls[j], file |-> PathFromCwd(i)] :
                j \in 1..Len(decls)}
    IN  UNION {Of(i, 1, env.sourceFiles[i].interfaces)
               \cup Of(i, 2, env.sourceFiles[i].typeAliases)
               \cup Of(i, 3, env.sourceFiles[i].enums) : i \in AnalyzedFiles}

\* place p is met before place q
MetBefore(p, q) ==
    \/ p[1] < q[1]
    \/ p[1] = q[1] /\ p[2] < q[2]
    \/ p[1] = q[1] /\ p[2] = q[2] /\ p[3] < q[3]

\* the declaration of the name n that is met last
LastDeclared(n) ==
    CHOOSE d \in TypeDeclarations :
        /\ d.decl.name = n
        /\ \A other \in TypeDeclarations :
              other.decl.name = n => other = d \/ MetBefore(other.at, d.at)

\* C23: after the build the type registry holds one definition for every
\* declared type name and for no other name, that of the declaration met last
\* among interfaces, aliases and enums of all analyzed files; type prints
\* that definition, and "not found" with status zero for a name never declared
C23_LastDeclarationWins ==
    Built =>
        LET names == {d.decl.name : d \in TypeDeclarations} IN
        /\ {typeDefinitions[i].name : i \in 1..Len(typeDefinitions)} = names
        /\ Len(typeDefinitions) = Cardinality(names)
        /\ \A i \in 1..Len(typeDefinitions) :
              LET last == LastDeclared(typeDefinitions[i].name) IN
              /\ typeDefinitions[i].line = last.decl.line
              /\ typeDefinitions[i].definition = last.decl.text
              /\ typeDefinitions[i].filePath = last.file
        /\ Ran("type") =>
              /\ exitCode = 0
              /\ IF argv.arg \in names
                 THEN /\ LinesOf("notfound") = << >>
                      /\ LinesOf("location")
                            = <<Line("location", LastDeclared(argv.arg).file,
                                     LastDeclared(argv.arg).decl.line)>>
                      /\ LinesOf("definition")
                            = <<Line("definition", LastDeclared(argv.arg).decl.text, 0)>>
                 ELSE out = <<Line("notfound", argv.arg, 0)>>

\* C23 witness: T is declared as two interfaces and an enum in src/m.ts and
\* as an interface in lib/n.ts, and type T has printed the one of lib/n.ts
C23_Witness ==
    /\ Ran("type")
    /\ argv.arg = <<"T">>
    /\ Len(env.sourceFiles[1].interfaces) = 3
    /\ Len(env.sourceFiles[1].enums) = 1
    /\ Len(env.sourceFiles[2].interfaces) = 1
    /\ env.sourceFiles[2].typeAliases = << >> /\ env.sourceFiles[2].enums = << >>
    /\ LinesOf("location") = <<Line("location", <<"l","i","b","/","n",".","t","s">>, 11)>>

\* the names of the functions of the activations below the i-th
Ancestors(i) == {functions[stack[j].func].name : j \in 1..(i - 1)}

\* C24: the visited set of every activation of flow is the set of the names
\* on its path from the start (with its own once it is entered), whatever
\* was visited on branches left before; a line marked circular has just been
\* printed only for a name on the current path
C24_VisitedIsThePath ==
    pc = "flow" =>
        /\ \A i \in 1..Len(stack) :
              stack[i].visited =
                  Ancestors(i) \cup (IF stack[i].entered
                                     THEN {functions[stack[i].func].name} ELSE {})
        /\ (/\ out[Len(out)].kind = "circular"
            /\ out[Len(out)].n = Len(stack)) =>
              out[Len(out)].name \in Ancestors(Len(stack) + 1)

\* C24 witness: flow a on the bare diamond has ended having printed d twice,
\* under b and under c, and no circular mark
C24_Witness ==
    /\ Ran("flow")
    /\ argv.arg = <<"a">>
    /\ CallLinks = {<<<<"a">>, <<"b">>>>, <<<<"a">>, <<"c">>>>,
                    <<<<"b">>, <<"d">>>>, <<<<"c">>, <<"d">>>>}
    /\ LinesOf("circular") = << >>
    /\ SelectSeq(out, LAMBDA l : l.name = <<"d">>)
          = <<Line("edge", <<"d">>, 2), Line("node", <<"d">>, 2),
              Line("edge", <<"d">>, 2), Line("node", <<"d">>, 2)>>

\* the directories a path leads through: its parts but the last
DirectoriesOf(path) ==
    LET cuts  == {k \in 1..Len(path) : path[k] = "/"}
        Part(k) == SubSeq(path, k + 1,
                          (CHOOSE e \in cuts : e > k /\ \A c \in cuts : c > k => e <= c) - 1)
    IN  {Part(k) : k \in {c \in cuts : \E e \in cuts : e > c}}

\* the source file is inside a node_modules, .next or dist directory
InsideBuildDirectory(path) ==
    DirectoriesOf(path) \cap {<<"n","o","d","e","_","m","o","d","u","l","e","s">>,
                               <<".","n","e","x","t">>, <<"d","i","s","t">>} # {}

\* C25: after a build the registry holds the records of every source file
\* that is not inside a node_modules, .next or dist directory, and of no file
\* that is inside one
C25_OnlyBuildDirectoriesSkipped ==
    Built =>
        {functions[r].filePath : r \in 1..Len(functions)}
            = {PathFromCwd(i) : i \in {j \in 1..Len(env.sourceFiles) :
                                    ~InsideBuildDirectory(env.sourceFiles[j].path)}}

\* the build is over: every source file has had its turn
AllFilesDone == fileIdx = Len(env.sourceFiles) + 1

\* C26: a command clears the registries, extracts and stores every source
\* file and only then runs its query: a step that prints anything but the
\* configuration error is taken after the last source file was stored, from
\* a registry that holds records of this build only, and the query starts
\* from the records of all analyzed files
C26_BuildBeforeQuery ==
    [][out' # out =>
          \/ pc = "start" /\ pc' = "exit" /\ out' = Append(out, Line("error", << >>, 1))
          \/ /\ pc \notin {"start", "files"}
             /\ AllFilesDone
             /\ RegistryIds \subseteq UNION {IdsOfFile(i) : i \in AnalyzedFiles}
             /\ pc = "query" =>
                   RegistryIds = UNION {IdsOfFile(i) : i \in AnalyzedFiles}]_vars

\* C26 witness: find has printed the functions that match from the registry
\* of a finished build of three functions
C26_Witness ==
    /\ pc = "find.restore"
    /\ Len(originalFunctions) = 3
    /\ AllFilesDone
    /\ Len(LinesOf("function")) = 2

\* the call expressions of the body of the function f of src/m.ts
BodyOfF == Range(env.sourceFiles[1].functions[1].body)

\* C27: the calls of a function hold the name of each bare identifier called,
\* the text x.m of each method called on a bare identifier x and import(path)
\* of each dynamic import with an argument, the quotes of the path removed;
\* a deeper property chain, a computed member and any other callee add
\* nothing, and no reference is held twice
C27_RecordedCalls ==
    Built =>
        LET calls == functions[1].calls
            ImportText == <<"i","m","p","o","r","t","(">> \o ModulePath \o <<")">>
        IN  /\ Range(calls) =
                  {c.name : c \in {d \in BodyOfF : d.shape = "ident"}}
                  \cup {c.obj \o <<".">> \o c.name :
                          c \in {d \in BodyOfF : d.shape = "prop" /\ d.objIdent}}
                  \cup {ImportText : c \in {d \in BodyOfF : d.shape = "import"
                                                             /\ d.args # << >>}}
            /\ Cardinality(Range(calls)) = Len(calls)

\* C27 witness: x.y.m(), import of './m' and import of "./m" leave one reference
C27_Witness ==
    /\ Built
    /\ BodyOfF = {CallShapes[3], CallShapes[5], CallShapes[6]}
    /\ Len(functions[1].calls) = 1

\* the places of the module grouping: list m, position k
ModulePlaces == {p \in (1..Len(modules)) \X (1..MaxSpan + Len(functions)) :
                    p[2] <= Len(modules[p[1]].ids)}

\* C28: after a build every id of the registry is at exactly one place of the
\* module grouping, in the list of the directory of its file, every id of a
\* module list is a key of the registry, and the lists together are as long
\* as the registry
C28_GroupingPartitionsRegistry ==
    Built =>
        /\ \A r \in 1..Len(functions) :
              /\ Cardinality({p \in ModulePlaces :
                                modules[p[1]].ids[p[2]] = functions[r].id}) = 1
              /\ \A p \in ModulePlaces :
                    modules[p[1]].ids[p[2]] = functions[r].id
                        => modules[p[1]].path = Dirname(functions[r].filePath)
        /\ \A p \in ModulePlaces : modules[p[1]].ids[p[2]] \in RegistryIds
        /\ Cardinality(ModulePlaces) = Len(functions)

\* the registries the build of the whole project leaves behind
BuiltRegistry == AnalyzeFiles(env, Len(env.sourceFiles))

\* C29: when find has returned, after a pattern that compiles and after one
\* that does not, the registry holds the records of the build in their
\* order, and the module grouping and the types are those of the build
C29_FindRestoresRegistry ==
    Ran("find") =>
        /\ functions = BuiltRegistry.functions
        /\ modules = BuiltRegistry.modules
        /\ typeDefinitions = BuiltRegistry.types

\* C29 witness: find has returned after the warning of a pattern that does
\* not compile and a list of some functions of the registry, not all
C29_Witness ==
    /\ Ran("find")
    /\ LinesOf("warning") # << >>
    /\ Len(LinesOf("function")) \in 1..(Len(functions) - 1)
    /\ Len(functions) >= 3

\* flow has started from a function it found with --depth a digit, or none
DepthGiven ==
    /\ FlowTraced
    /\ argv.depth = << >> \/ \E d \in 0..9 : argv.depth = <<Digits[d + 1]>>

\* the maximum depth asked for
GivenDepth ==
    IF argv.depth = << >> THEN 3
    ELSE CHOOSE d \in 0..9 : argv.depth = <<Digits[d + 1]>>

\* the kinds of the lines of flow that name a function
FlowNaming == {"header", "node", "edge", "circular"}

\* the names within d project-internal calls of the start function of flow
WithinCalls(d) ==
    ReachWithin({functions[FindFunction(functions, argv.arg)].name}, CallLinks, d)

\* C30 as stated: with maximum depth D no line of flow names a function that
\* is more than D project-internal calls away from the start
C30_NothingBeyondDepth ==
    DepthGiven =>
        LET within == WithinCalls(GivenDepth)
        IN  \A i \in 1..Len(out) :
                out[i].kind \in FlowNaming => out[i].name \in within

\* C30 amended: with maximum depth D every function flow names is at most
\* D + 1 project-internal calls away from the start, and one that is D + 1
\* calls away is named only as the callee of a function at depth D: it has no
\* node line and is not expanded
C30_NamedOnceBeyondDepth ==
    DepthGiven =>
        LET links  == CallLinks
            start  == {functions[FindFunction(functions, argv.arg)].name}
            within == ReachWithin(start, links, GivenDepth)
            beyond == ReachWithin(within, links, 1)
        IN  \A i \in 1..Len(out) :
                out[i].kind \in FlowNaming =>
                    /\ out[i].name \in beyond
                    /\ out[i].name \notin within
                          => out[i].kind = "edge" /\ out[i].n = GivenDepth + 1

\* C30 witness: flow a with depth 2 on the chain a -> b -> c -> d has ended
\* and d is named once, on the line of the callee of c
C30_Witness ==
    /\ Ran("flow")
    /\ argv.depth = <<"2">>
    /\ CallLinks = {<<<<"a">>, <<"b">>>>, <<<<"b">>, <<"c">>>>, <<<<"c">>, <<"d">>>>}
    /\ SelectSeq(out, LAMBDA l : l.name = <<"d">>) = <<Line("edge", <<"d">>, 3)>>
    /\ \E i \in 1..Len(out) : out[i] = Line("node", <<"c">>, 2)

====
